---- MODULE Spec2Model ----
(***************************************************************************)
(* Model of terraform-provider-weka (internal/provider): the transport     *)
(* (WekaClient.makeRequest) and the Create/Read/Update/Delete handlers of  *)
(* the seven entity kinds, run by the plugin SDK on one resource instance. *)
(*                                                                         *)
(* One instance is reconciled.  `id` and `attrs` are what the host has     *)
(* stored for it; each action is one whole handler invocation: it draws    *)
(* the declared configuration and the remote's responses from small sets,  *)
(* runs the handler on a ResourceData value `d`, and stores the state the  *)
(* SDK hands back to the host.  `calls` logs the remote calls the handler  *)
(* issued, each with the response it got and what makeRequest returned.    *)
(***************************************************************************)
EXTENDS Integers, Sequences, FiniteSets, TLC

VARIABLES
    kind,    \* entity kind of the instance (fixed per behaviour)
    id,      \* identifier the host has stored ("" = Absent)
    attrs,   \* field values the host has stored
    now,     \* time.Now().Unix()
    op,      \* the last operation: name, declared plan, state before, error,
             \* and for a Read the Create it came right after
    calls,   \* remote calls issued by the last operation, in order
    created, \* what a Create that succeeded as the latest operation declared and sent
    session, \* the outcome of providerConfigure: its inputs, its login call, the client
    peers    \* instances reconciled in parallel: each one's stored state and the
             \* handler running on it (<<>> when one instance is reconciled alone)

vars == <<kind, id, attrs, now, op, calls, created, session, peers>>

\* ------------------------------------------------------------------ bounds

\* The clock takes the values 1..MaxClock.
MaxClock == 2

\* ------------------------------------------------------------- HTTP bodies

\* A response body.  json: whether it is JSON at all.  data is the value under
\* the "data" key: absent, an object, or an array.  An object carries the error
\* envelope's error/reason strings and the entity-specific record `rec`.
NoData == [t |-> "none"]
ObjData(error, reason, rec) == [t |-> "obj", error |-> error, reason |-> reason, rec |-> rec]
ListData(items) == [t |-> "list", items |-> items]

NoRec == [none |-> TRUE]

Garbage == [json |-> FALSE, message |-> "", data |-> NoData]
Json(message, data) == [json |-> TRUE, message |-> message, data |-> data]

\* The body {"message": m, "data": {"error": e, "reason": r}}.
Envelope(m, e, r) == Json(m, ObjData(e, r, NoRec))

\* The success body {"data": rec}.
Payload(rec) == Json("", ObjData("", "", rec))

\* The success body {"data": [items]}.
Listing(items) == Json("", ListData(items))

\* A response; delivered = FALSE when client.Do returned an error.
Response(status, body) == [delivered |-> TRUE, status |-> status, body |-> body]
Dropped == [delivered |-> FALSE, status |-> 0, body |-> Garbage]

StatusOK == 200

\* ------------------------------------------------------------------ errors

Err(type, status, hasMessage, message) ==
    [type |-> type, status |-> status, hasMessage |-> hasMessage, message |-> message]

NilErr == Err("nil", 0, FALSE, "")
TransportErr == Err("Transport", 0, FALSE, "")
DecodeErr == Err("Decode", 0, FALSE, "")
PanicErr == Err("Panic", 0, FALSE, "")

\* fmt.Errorf("Error from Weka API: %s", wer.Message)
RemoteRejected(message) == Err("RemoteRejected", 0, TRUE, message)

\* fmt.Errorf("Non-200 status from Weka API: %d", ...) with or without
\* ", message: %s"
RemoteHTTPError(status, message) == Err("RemoteHTTPError", status, message # "", message)

\* diag.Diagnostic{Severity: diag.Error, Summary: ...} of a changed immutable field
ImmutableFieldChanged(field) == Err("ImmutableFieldChanged", 0, TRUE, field)

UnsupportedConfiguration == Err("UnsupportedConfiguration", 0, FALSE, "")

\* The error a schema ValidateFunc appends for the field key
ValidationError(key) == Err("Validation", 0, TRUE, key)

\* "Unable to create Weka client." / url.ParseRequestURI's error
ConfigurationError == Err("Configuration", 0, FALSE, "")

\* "non-200 response from Weka API path ..." / "Unknown token type from Weka API"
AuthenticationError(status) == Err("Authentication", status, FALSE, "")

\* --------------------------------------------------------------- transport

NilBody == [json |-> FALSE, message |-> "<nil>", data |-> NoData]

\* json.Unmarshal(body, &wer) == nil: the body is JSON and "data", when
\* present, is an object (an array does not unmarshal into the struct).
ParsesAsWER(body) == body.json /\ body.data.t \in {"none", "obj"}

WerError(body) == IF body.data.t = "obj" THEN body.data.error ELSE ""
WerReason(body) == IF body.data.t = "obj" THEN body.data.reason ELSE ""

\* The older ordering: HTTP status first, error structure second.
makeRequestStatusFirst(res) ==
    IF ~res.delivered THEN [body |-> NilBody, err |-> TransportErr]
    ELSE IF res.status # StatusOK
         THEN [body |-> NilBody, err |-> RemoteHTTPError(res.status, "")]
    ELSE IF ParsesAsWER(res.body) /\ (WerError(res.body) # "" \/ WerReason(res.body) # "")
         THEN [body |-> NilBody, err |-> RemoteRejected(res.body.message)]
    ELSE [body |-> res.body, err |-> NilErr]

\* A makeRequest that drops the message of a non-200 response.
makeRequestNoMessage(res) ==
    IF ~res.delivered THEN [body |-> NilBody, err |-> TransportErr]
    ELSE IF ParsesAsWER(res.body) /\ (WerError(res.body) # "" \/ WerReason(res.body) # "")
         THEN [body |-> NilBody, err |-> RemoteRejected(res.body.message)]
    ELSE IF res.status # StatusOK
         THEN [body |-> NilBody, err |-> RemoteHTTPError(res.status, "")]
    ELSE [body |-> res.body, err |-> NilErr]

\* A makeRequest that takes every unflagged body for a success.
makeRequestNoStatus(res) ==
    IF ~res.delivered THEN [body |-> NilBody, err |-> TransportErr]
    ELSE IF ParsesAsWER(res.body) /\ (WerError(res.body) # "" \/ WerReason(res.body) # "")
         THEN [body |-> NilBody, err |-> RemoteRejected(res.body.message)]
    ELSE [body |-> res.body, err |-> NilErr]

\* WekaClient.makeRequest, from the response on: (payload, error).
makeRequest(res) ==
    IF ~res.delivered THEN [body |-> NilBody, err |-> TransportErr]
    ELSE LET parsed == ParsesAsWER(res.body)
             message == IF parsed THEN res.body.message ELSE ""
         IN  IF parsed /\ (WerError(res.body) # "" \/ WerReason(res.body) # "")
             THEN [body |-> NilBody, err |-> RemoteRejected(res.body.message)]
             ELSE IF res.status # StatusOK
                  THEN [body |-> NilBody, err |-> RemoteHTTPError(res.status, message)]
                  ELSE [body |-> res.body, err |-> NilErr]

\* One remote call as logged: the request, the response, makeRequest's return.
NoBody == [nobody |-> TRUE]
Call(method, path, hasBody, body, res) ==
    [method |-> method, path |-> path, hasBody |-> hasBody, body |-> body,
     res |-> res, ret |-> makeRequest(res)]

\* ------------------------------------------------------------------ schema

\* The seven entity kinds that have handlers.  ResourcesMap registers six of
\* them; resourceS3Bucket is defined but not registered.
Kinds == {"user", "kms", "filesystem", "filesystem_group", "s3_bucket",
          "s3_policy", "user_s3_policy"}

\* New: the resource types the provider registers with the host.
ResourcesMap ==
    {"kms", "filesystem", "filesystem_group", "user", "s3_policy", "user_s3_policy"}

\* const OurGb
OurGb == 1000000000

\* A byte count n (a 64-bit Go int) is held as the record [hi, lo] with
\* n = hi * OurGb + lo and 0 <= lo < OurGb: the model checker's integers are
\* 32 bits wide.  MulGb is g * OurGb, DivGb is n / OurGb, AddBytes is a + b.
Bytes(hi, lo) == [hi |-> hi, lo |-> lo]

\* A conversion that takes 1 GB for 2^30 = 1073741824 bytes.
MulGiB(g) == Bytes(g + ((g * 73741824) \div OurGb), (g * 73741824) % OurGb)

MulGb(g) == Bytes(g, 0)
DivGb(n) == n.hi
AddBytes(a, b) == Bytes(a.hi + b.hi + ((a.lo + b.lo) \div OurGb), (a.lo + b.lo) % OurGb)

\* WekaClient.getOrg()
Org == "org1"

Usernames == {"alice", "username"}
Passwords == {"pw1", "pw2"}
Roles == {"Regular", "S3"}
PosixIds == {0, 7}              \* 0: not declared
Names == {"n1", "n2"}
CapacitiesGb == {1, 4}
Quotas == {"1GB", "2GB"}
AnonymousPolicies == {"none", "public"}
PolicyNames == {"p1", "p2"}
Contents == {"{ }", "{\"Version\":1}"}
Urls == {"https://a", "https://b"}
Uids == {"u1", "u2"}

\* Values a configuration may write for an enum field and that are not of the
\* enum: the empty string, another letter case, another word.
InvalidRoles == {"", "regular", "Admin"}
InvalidAnonymousPolicies == {"", "None", "private"}

\* Every value the model validates for role and for anonymous_policy_name.
RoleAttempts == {"ClusterAdmin", "OrgAdmin", "ReadOnly", "Regular", "S3"} \cup InvalidRoles
AnonymousPolicyAttempts == {"none", "download", "upload", "public"}
                           \cup InvalidAnonymousPolicies

\* A validation of role that ignores the case of the first letter.
ValidateRoleAnyCase(v) ==
    v \in {"ClusterAdmin", "OrgAdmin", "ReadOnly", "Regular", "S3", "regular"}

\* ValidateFunc of role: TRUE when it appends no error
ValidateRole(v) ==
    v = "ClusterAdmin" \/ v = "OrgAdmin" \/ v = "ReadOnly" \/ v = "Regular" \/ v = "S3"

\* ValidateFunc of anonymous_policy_name: TRUE when it appends no error
ValidateAnonymousPolicy(v) ==
    v = "none" \/ v = "download" \/ v = "upload" \/ v = "public"

\* The declarable configurations of each kind: every field of the schema that
\* the configuration can set, with the values the schema's ValidateFunc lets
\* through to the handlers.  Computed fields start at their zero value.
Declared(k) ==
    CASE k = "user" ->
           [username: Usernames, password: Passwords,
            role: {v \in Roles \cup InvalidRoles : ValidateRole(v)},
            posix_uid: PosixIds, posix_gid: PosixIds, last_updated: {0}]
      [] k = "kms" ->
           [base_url: Urls, master_key_name: Names, token: {"tok1", "tok2"},
            kms_type: {""}, last_updated: {""}]
      [] k = "filesystem" ->
           [name: Names, group_name: {"default"}, total_capacity_gb: CapacitiesGb,
            obs_name: {"obs1", "obs2"}, ssd_capacity_gb: {1, 2},
            encrypted: BOOLEAN, auth_required: BOOLEAN, allow_no_kms: {TRUE},
            tiered: BOOLEAN, last_updated: {""}]
      [] k = "filesystem_group" ->
           [name: Names, target_ssd_retention: {10, 20}, start_demote: {1, 2},
            last_updated: {""}]
      [] k = "s3_bucket" ->
           [bucket_name: {"bkt1", "bkt2"},
            anonymous_policy_name:
                {v \in AnonymousPolicies \cup InvalidAnonymousPolicies :
                    ValidateAnonymousPolicy(v)},
            hard_quota: {""} \cup Quotas, existing_path: {""}, fs_uid: {"fs1"},
            last_updated: {""}]
      [] k = "s3_policy" ->
           [policy_name: PolicyNames, policy_file_content: Contents, last_updated: {0}]
      [] k = "user_s3_policy" ->
           [username: Usernames, s3_policy_name: PolicyNames, last_updated: {""}]

\* The fields the schema marks ForceNew: the SDK replaces the instance when one
\* changes, and never calls Update with it changed.
ForceNew(k) ==
    IF k = "s3_bucket" THEN {"bucket_name", "existing_path", "fs_uid"} ELSE {}

\* The fields the schema marks Computed and the configuration never sets.
Computed(k) ==
    IF k = "kms" THEN {"kms_type", "last_updated"} ELSE {"last_updated"}

\* The schema type of last_updated: TypeString, or TypeInt (user, s3_policy).
LastUpdatedIsString(k) == k \notin {"user", "s3_policy"}

\* The zero value of every field: the attributes of an instance before Create.
Zero(k) ==
    CASE k = "user" ->
           [username |-> "", password |-> "", role |-> "", posix_uid |-> 0,
            posix_gid |-> 0, last_updated |-> 0]
      [] k = "kms" ->
           [base_url |-> "", master_key_name |-> "", token |-> "", kms_type |-> "",
            last_updated |-> ""]
      [] k = "filesystem" ->
           [name |-> "", group_name |-> "", total_capacity_gb |-> 0, obs_name |-> "",
            ssd_capacity_gb |-> 0, encrypted |-> FALSE, auth_required |-> FALSE,
            allow_no_kms |-> FALSE, tiered |-> FALSE, last_updated |-> ""]
      [] k = "filesystem_group" ->
           [name |-> "", target_ssd_retention |-> 0, start_demote |-> 0,
            last_updated |-> ""]
      [] k = "s3_bucket" ->
           [bucket_name |-> "", anonymous_policy_name |-> "", hard_quota |-> "",
            existing_path |-> "", fs_uid |-> "", last_updated |-> ""]
      [] k = "s3_policy" ->
           [policy_name |-> "", policy_file_content |-> "", last_updated |-> 0]
      [] k = "user_s3_policy" ->
           [username |-> "", s3_policy_name |-> "", last_updated |-> ""]

\* ------------------------------------------------------------ ResourceData

\* schema.ResourceData during one handler call: the identifier, the prior
\* state, the planned values, the values as written so far (plan, then d.Set),
\* and the partial-state flag.
NewData(k, i, prior, plan) ==
    [kind |-> k, id |-> i, prior |-> prior, plan |-> plan, cur |-> plan, partial |-> FALSE]

Get(d, f) == d.cur[f]
HasChange(d, f) == d.prior[f] # d.plan[f]
OldValue(d, f) == d.prior[f]
\* d.Set fails on a key the schema does not have; the handlers drop its error.
Set(d, f, v) == IF f \in DOMAIN d.cur THEN [d EXCEPT !.cur[f] = v] ELSE d
SetId(d, v) == [d EXCEPT !.id = v]
Partial(d, on) == [d EXCEPT !.partial = on]

\* strconv.FormatInt(time.Now().Unix(), 10)
FormatInt(n) == ToString(n)

\* time.Now().Format(time.RFC850)
RFC850(n) == "T" \o ToString(n)

\* d.Set("last_updated", time.Now().Format(time.RFC850)): d.Set rejects a
\* string for a TypeInt field, and the handlers drop its error.
SetLastUpdated(d, n) ==
    IF LastUpdatedIsString(d.kind) THEN Set(d, "last_updated", RFC850(n)) ELSE d

Absent(k) == [id |-> "", attrs |-> Zero(k)]

\* ResourceData.State(): nothing when the identifier is empty; with partial
\* mode on (and no key marked by SetPartial) every field keeps its prior value;
\* otherwise every field has its written value.
State(d) ==
    IF d.id = "" THEN Absent(d.kind)
    ELSE [id |-> d.id, attrs |-> IF d.partial THEN d.prior ELSE d.cur]

\* What a handler returns: the ResourceData, the calls it issued, its error.
Result(d, cs, err) == [d |-> d, calls |-> cs, err |-> err]

\* --------------------------------------------------------------- decoding

\* The record under "data" of a body, and one of its fields (a field absent
\* from the JSON leaves the struct's zero value).
Rec(body) == IF body.data.t = "obj" THEN body.data.rec ELSE NoRec
Field(rec, f, zero) == IF f \in DOMAIN rec THEN rec[f] ELSE zero

\* json.Unmarshal into a struct whose Data is a struct succeeds.
DecodesAsObject(body) == body.json /\ body.data.t \in {"none", "obj"}

\* json.Unmarshal into a struct whose Data is a slice succeeds.
DecodesAsList(body) == body.json /\ body.data.t \in {"none", "list"}
Items(body) == IF body.data.t = "list" THEN body.data.items ELSE <<>>

\* The record with the fields fs, each with its current value in d.
Fields(d, fs) == [f \in fs |-> Get(d, f)]

\* The index at which a loop over seq from its first element stops at the
\* first element whose field f equals v, or 0 when it runs to the end.
FirstMatch(seq, f, v) ==
    LET hits == {i \in DOMAIN seq : Field(seq[i], f, "") = v}
    IN  IF hits = {} THEN 0 ELSE CHOOSE i \in hits : \A j \in hits : i <= j

\* -------------------------------------------------------------------- user

\* resourceUserCreate
resourceUserCreate(d, res) ==
    LET createParams ==
            {"username", "password", "role"}
            \cup (IF HasChange(d, "posix_uid") THEN {"posix_uid"} ELSE {})
            \cup (IF HasChange(d, "posix_uid") THEN {"posix_gid"} ELSE {})
        c == Call("POST", "/users", TRUE, Fields(d, createParams), res)
        wekauser == Rec(c.ret.body)
        d1 == Set(d, "posix_uid", Field(wekauser, "posix_uid", 0))
        d2 == Set(d1, "posix_gid", Field(wekauser, "posix_gid", 0))
    IN  IF c.ret.err # NilErr THEN Result(d, <<c>>, c.ret.err)
        ELSE IF ~DecodesAsObject(c.ret.body) THEN Result(d, <<c>>, DecodeErr)
        ELSE Result(SetId(d2, Field(wekauser, "uid", "")), <<c>>, NilErr)

\* resourceUserRead
resourceUserRead(d, res) ==
    LET c == Call("GET", "/users", FALSE, NoBody, res)
        parsed == Items(c.ret.body)
        i == FirstMatch(parsed, "uid", d.id)
    IN  IF c.ret.err # NilErr THEN Result(d, <<c>>, c.ret.err)
        ELSE IF ~DecodesAsList(c.ret.body) THEN Result(d, <<c>>, DecodeErr)
        ELSE IF i # 0
             THEN Result(Set(d, "role", Field(parsed[i], "role", "")), <<c>>, NilErr)
             ELSE Result(SetId(d, ""), <<c>>, NilErr)

\* A Delete that clears the identifier whatever the remote answered.
resourceUserDeleteAlways(d, res) ==
    LET c == Call("DELETE", "/users/" \o d.id, FALSE, NoBody, res)
    IN  Result(SetId(d, ""), <<c>>, c.ret.err)

\* A Delete that sends the request once more when it failed.
resourceUserDeleteRetry(d, res) ==
    LET c == Call("DELETE", "/users/" \o d.id, FALSE, NoBody, res)
    IN  IF c.ret.err # NilErr THEN Result(d, <<c, c>>, c.ret.err)
        ELSE Result(SetId(d, ""), <<c>>, NilErr)

\* resourceUserDelete
resourceUserDelete(d, res) ==
    LET c == Call("DELETE", "/users/" \o d.id, FALSE, NoBody, res)
    IN  IF c.ret.err # NilErr THEN Result(d, <<c>>, c.ret.err)
        ELSE Result(SetId(d, ""), <<c>>, NilErr)

\* An Update that looks at username only after the password call.
resourceUserUpdateLateCheck(d, res1, res2, n) ==
    LET pud == [username |-> Get(d, "username"),
                old_password |-> OldValue(d, "password"),
                new_password |-> Get(d, "password"),
                org |-> Org]
        c1 == Call("PUT", "/users/password", TRUE, pud, res1)
        cs1 == IF HasChange(d, "password") THEN <<c1>> ELSE <<>>
        c2 == Call("PUT", "/users/" \o d.id, FALSE, NoBody, res2)
    IN  IF HasChange(d, "password") /\ c1.ret.err # NilErr
        THEN Result(d, cs1, c1.ret.err)
        ELSE IF HasChange(d, "username")
        THEN Result(d, cs1, ImmutableFieldChanged("username"))
        ELSE IF HasChange(d, "posix_uid") \/ HasChange(d, "posix_gid") \/ HasChange(d, "role")
        THEN IF c2.ret.err # NilErr
             THEN Result(d, cs1 \o <<c2>>, c2.ret.err)
             ELSE Result(SetLastUpdated(d, n), cs1 \o <<c2>>, NilErr)
        ELSE Result(SetLastUpdated(d, n), cs1, NilErr)

\* An Update that issues PUT /users/{id} before PUT /users/password.
resourceUserUpdateFieldsFirst(d, res1, res2, n) ==
    LET pud == [username |-> Get(d, "username"),
                old_password |-> OldValue(d, "password"),
                new_password |-> Get(d, "password"),
                org |-> Org]
        c1 == Call("PUT", "/users/" \o d.id, FALSE, NoBody, res1)
        fields == HasChange(d, "posix_uid") \/ HasChange(d, "posix_gid")
                  \/ HasChange(d, "role")
        cs1 == IF fields THEN <<c1>> ELSE <<>>
        c2 == Call("PUT", "/users/password", TRUE, pud, res2)
    IN  IF HasChange(d, "username")
        THEN Result(d, <<>>, ImmutableFieldChanged("username"))
        ELSE IF fields /\ c1.ret.err # NilErr
        THEN Result(d, cs1, c1.ret.err)
        ELSE IF HasChange(d, "password")
        THEN IF c2.ret.err # NilErr
             THEN Result(d, cs1 \o <<c2>>, c2.ret.err)
             ELSE Result(SetLastUpdated(d, n), cs1 \o <<c2>>, NilErr)
        ELSE Result(SetLastUpdated(d, n), cs1, NilErr)

\* resourceUserUpdate
resourceUserUpdate(d, res1, res2, n) ==
    LET pud == [username |-> Get(d, "username"),
                old_password |-> OldValue(d, "password"),
                new_password |-> Get(d, "password"),
                org |-> Org]
        c1 == Call("PUT", "/users/password", TRUE, pud, res1)
        cs1 == IF HasChange(d, "password") THEN <<c1>> ELSE <<>>
        \* the request of the second call is built with a nil body
        c2 == Call("PUT", "/users/" \o d.id, FALSE, NoBody, res2)
    IN  IF HasChange(d, "username")
        THEN Result(d, <<>>, ImmutableFieldChanged("username"))
        ELSE IF HasChange(d, "password") /\ c1.ret.err # NilErr
        THEN Result(d, cs1, c1.ret.err)
        ELSE IF HasChange(d, "posix_uid") \/ HasChange(d, "posix_gid") \/ HasChange(d, "role")
        THEN IF c2.ret.err # NilErr
             THEN Result(d, cs1 \o <<c2>>, c2.ret.err)
             ELSE Result(SetLastUpdated(d, n), cs1 \o <<c2>>, NilErr)
        ELSE Result(SetLastUpdated(d, n), cs1, NilErr)

\* --------------------------------------------------------------- s3_bucket

\* resourceS3BucketCreate
resourceS3BucketCreate(d, res) ==
    LET createParams ==
            [f \in {"policy", "bucket_name", "fs_uid"}
                   \cup (IF HasChange(d, "hard_quota") THEN {"hard_quota"} ELSE {})
                   \cup (IF HasChange(d, "existing_path") THEN {"existing_path"} ELSE {})
               |-> IF f = "policy" THEN Get(d, "anonymous_policy_name") ELSE Get(d, f)]
        c == Call("POST", "/s3/buckets", TRUE, createParams, res)
    IN  IF c.ret.err # NilErr THEN Result(d, <<c>>, c.ret.err)
        ELSE Result(SetId(d, Get(d, "bucket_name")), <<c>>, NilErr)

\* resourceS3BucketRead
resourceS3BucketRead(d, res) ==
    LET c == Call("GET", "/s3/buckets", FALSE, NoBody, res)
        buckets == Field(Rec(c.ret.body), "buckets", <<>>)
    IN  IF c.ret.err # NilErr THEN Result(d, <<c>>, c.ret.err)
        ELSE IF ~DecodesAsObject(c.ret.body) THEN Result(d, <<c>>, DecodeErr)
        ELSE IF FirstMatch(buckets, "name", d.id) # 0 THEN Result(d, <<c>>, NilErr)
        ELSE Result(SetId(d, ""), <<c>>, NilErr)

\* resourceS3BucketDelete
resourceS3BucketDelete(d, res) ==
    LET c == Call("DELETE", "/s3/buckets/" \o d.id, FALSE, NoBody, res)
    IN  IF c.ret.err # NilErr THEN Result(d, <<c>>, c.ret.err)
        ELSE Result(SetId(d, ""), <<c>>, NilErr)

\* An Update that changes the policy before the quota.
resourceS3BucketUpdatePolicyFirst(d, res1, res2, n) ==
    LET d0 == Partial(d, TRUE)
        c1 == Call("PUT", "/s3/buckets/" \o d.id \o "/policy", TRUE,
                   [bucket_policy |-> Get(d, "anonymous_policy_name")], res1)
        cs1 == IF HasChange(d, "anonymous_policy_name") THEN <<c1>> ELSE <<>>
        c2 == Call("PUT", "/s3/buckets/" \o d.id \o "/quota", TRUE,
                   [hard_quota |-> Get(d, "hard_quota")], res2)
        cs2 == IF HasChange(d, "hard_quota") THEN <<c2>> ELSE <<>>
    IN  IF HasChange(d, "anonymous_policy_name") /\ c1.ret.err # NilErr
        THEN Result(d0, cs1, c1.ret.err)
        ELSE IF HasChange(d, "hard_quota") /\ c2.ret.err # NilErr
        THEN Result(d0, cs1 \o cs2, c2.ret.err)
        ELSE Result(SetLastUpdated(Partial(d0, FALSE), n), cs1 \o cs2, NilErr)

\* resourceS3BucketUpdate
resourceS3BucketUpdate(d, res1, res2, n) ==
    LET d0 == Partial(d, TRUE)
        c1 == Call("PUT", "/s3/buckets/" \o d.id \o "/quota", TRUE,
                   [hard_quota |-> Get(d, "hard_quota")], res1)
        cs1 == IF HasChange(d, "hard_quota") THEN <<c1>> ELSE <<>>
        c2 == Call("PUT", "/s3/buckets/" \o d.id \o "/policy", TRUE,
                   [bucket_policy |-> Get(d, "anonymous_policy_name")], res2)
        cs2 == IF HasChange(d, "anonymous_policy_name") THEN <<c2>> ELSE <<>>
    IN  IF HasChange(d, "hard_quota") /\ c1.ret.err # NilErr
        THEN Result(d0, cs1, c1.ret.err)
        ELSE IF HasChange(d, "anonymous_policy_name") /\ c2.ret.err # NilErr
        THEN Result(d0, cs1 \o cs2, c2.ret.err)
        ELSE Result(SetLastUpdated(Partial(d0, FALSE), n), cs1 \o cs2, NilErr)

\* ---------------------------------------------------------- user_s3_policy

\* resourceUserPolicyCreate
resourceUserPolicyCreate(d, res, n) ==
    LET createData == [user_name |-> Get(d, "username"),
                       policy_name |-> Get(d, "s3_policy_name")]
        c == Call("POST", "/s3/policies/attach", TRUE, createData, res)
    IN  IF c.ret.err # NilErr THEN Result(d, <<c>>, c.ret.err)
        ELSE Result(SetId(d, FormatInt(n)), <<c>>, NilErr)

\* resourceUserPolicyRead: the listing maps user names to policy names; the
\* handler looks up the key "username".
resourceUserPolicyRead(d, res) ==
    LET c == Call("GET", "/s3/userPolicies", FALSE, NoBody, res)
        users == Field(Rec(c.ret.body), "users", <<>>)
        current_policy == Get(d, "s3_policy_name")
        exists == "username" \in DOMAIN users
    IN  IF c.ret.err # NilErr THEN Result(d, <<c>>, c.ret.err)
        ELSE IF ~DecodesAsObject(c.ret.body) THEN Result(d, <<c>>, DecodeErr)
        ELSE IF exists /\ current_policy = users["username"] THEN Result(d, <<c>>, NilErr)
        ELSE IF exists
             THEN Result(SetId(Set(d, "s3_policy_name", users["username"]), ""), <<c>>, NilErr)
             ELSE Result(SetId(d, ""), <<c>>, NilErr)

\* resourceUserPolicyDelete
resourceUserPolicyDelete(d, res) ==
    LET delDoc == [user_name |-> Get(d, "username")]
        c == Call("POST", "/s3/policies/detach", TRUE, delDoc, res)
    IN  IF c.ret.err # NilErr THEN Result(d, <<c>>, c.ret.err)
        ELSE Result(SetId(d, ""), <<c>>, NilErr)

\* An Update that attaches whether or not the detach succeeded.
resourceUserPolicyUpdateIgnoringDetach(d, res1, res2, n) ==
    LET d0 == Partial(d, TRUE)
        del == resourceUserPolicyDelete(d0, res1)
        cre == resourceUserPolicyCreate(del.d, res2, n)
        att == resourceUserPolicyCreate(d0, res1, n)
        r == IF HasChange(d, "username")
             THEN Result(cre.d, del.calls \o cre.calls, cre.err)
             ELSE IF HasChange(d, "s3_policy_name") THEN att
             ELSE Result(d0, <<>>, NilErr)
    IN  IF r.err # NilErr THEN r
        ELSE Result(SetLastUpdated(Partial(r.d, FALSE), n), r.calls, NilErr)

\* resourceUserPolicyUpdate
resourceUserPolicyUpdate(d, res1, res2, n) ==
    LET d0 == Partial(d, TRUE)
        del == resourceUserPolicyDelete(d0, res1)
        cre == resourceUserPolicyCreate(del.d, res2, n)
        att == resourceUserPolicyCreate(d0, res1, n)
        r == IF HasChange(d, "username")
             THEN IF del.err # NilErr THEN del
                  ELSE Result(cre.d, del.calls \o cre.calls, cre.err)
             ELSE IF HasChange(d, "s3_policy_name") THEN att
             ELSE Result(d0, <<>>, NilErr)
    IN  IF r.err # NilErr THEN r
        ELSE Result(SetLastUpdated(Partial(r.d, FALSE), n), r.calls, NilErr)

\* --------------------------------------------------------------------- kms

\* extractKMSJsonData: (d, error)
extractKMSJsonData(body, d) ==
    LET kms == Rec(body)
        params == Field(kms, "params", NoRec)
        d1 == Set(d, "master_key_name", Field(params, "master_key_name", ""))
        d2 == Set(d1, "base_url", Field(params, "base_url", ""))
        d3 == Set(d2, "kms_type", Field(kms, "kms_type", ""))
    IN  IF ~DecodesAsObject(body) THEN [d |-> d, err |-> DecodeErr]
        ELSE [d |-> d3, err |-> NilErr]

\* resourceKMSRead
resourceKMSRead(d, res, n) ==
    LET c == Call("GET", "/kms", FALSE, NoBody, res)
        x == extractKMSJsonData(c.ret.body, d)
    IN  IF c.ret.err # NilErr THEN Result(d, <<c>>, c.ret.err)
        ELSE IF x.err # NilErr THEN Result(d, <<c>>, x.err)
        ELSE Result(SetId(x.d, FormatInt(n)), <<c>>, NilErr)

\* resourceKMSDelete
resourceKMSDelete(d, res) ==
    LET c == Call("DELETE", "/kms", FALSE, NoBody, res)
    IN  IF c.ret.err # NilErr THEN Result(d, <<c>>, c.ret.err)
        ELSE Result(SetId(d, ""), <<c>>, NilErr)

\* A Create that also sends the Computed fields.
resourceKMSCreateWithComputed(d, res1, res2, n) ==
    LET c == Call("POST", "/kms", TRUE,
                  Fields(d, {"base_url", "master_key_name", "token", "kms_type",
                             "last_updated"}), res1)
        read == resourceKMSRead(d, res2, n)
    IN  IF c.ret.err # NilErr THEN Result(d, <<c>>, c.ret.err)
        ELSE Result(read.d, <<c>> \o read.calls, NilErr)

\* resourceKMSCreate: the diagnostics of the read-back are dropped
resourceKMSCreate(d, res1, res2, n) ==
    LET c == Call("POST", "/kms", TRUE,
                  Fields(d, {"base_url", "master_key_name", "token"}), res1)
        read == resourceKMSRead(d, res2, n)
    IN  IF c.ret.err # NilErr THEN Result(d, <<c>>, c.ret.err)
        ELSE Result(read.d, <<c>> \o read.calls, NilErr)

\* resourceKMSUpdate
resourceKMSUpdate(d, res1, res2, n) ==
    resourceKMSCreate(SetLastUpdated(d, n), res1, res2, n)

\* -------------------------------------------------------------- filesystem

\* An extraction that writes obs_name and ssd_capacity_gb whether or not the
\* record lists an OBS bucket.
extractFilesystemJsonDataOverwriting(body, d) ==
    LET kms == Rec(body)
        ObsBuckets == Field(kms, "obs_buckets", <<>>)
        ssd_capacity ==
            DivGb(AddBytes(Field(kms, "used_ssd", Bytes(0, 0)),
                           Field(kms, "available_ssd", Bytes(0, 0))))
        total_capacity ==
            DivGb(AddBytes(Field(kms, "available_total", Bytes(0, 0)),
                           Field(kms, "used_total", Bytes(0, 0))))
        d0 == SetId(d, Field(kms, "uid", ""))
        d1 == Set(Set(d0, "ssd_capacity_gb", ssd_capacity), "tiered", Len(ObsBuckets) > 0)
        d2 == Set(d1, "obs_name",
                  IF Len(ObsBuckets) > 0 THEN Field(ObsBuckets[1], "name", "") ELSE "")
        d3 == Set(d2, "total_capacity_gb", total_capacity)
        d4 == Set(d3, "encrypted", Field(kms, "is_encrypted", FALSE))
        d5 == Set(d4, "auth_required", Field(kms, "auth_required", FALSE))
        d6 == Set(d5, "group_name", Field(kms, "group_name", ""))
    IN  IF ~DecodesAsObject(body) THEN [d |-> d, err |-> DecodeErr]
        ELSE IF Len(ObsBuckets) > 1 THEN [d |-> d1, err |-> UnsupportedConfiguration]
        ELSE [d |-> d6, err |-> NilErr]

\* extractFilesystemJsonData: (d, error)
extractFilesystemJsonData(body, d) ==
    LET kms == Rec(body)
        ObsBuckets == Field(kms, "obs_buckets", <<>>)
        ssd_capacity ==
            DivGb(AddBytes(Field(kms, "used_ssd", Bytes(0, 0)),
                           Field(kms, "available_ssd", Bytes(0, 0))))
        total_capacity ==
            DivGb(AddBytes(Field(kms, "available_total", Bytes(0, 0)),
                           Field(kms, "used_total", Bytes(0, 0))))
        d0 == SetId(d, Field(kms, "uid", ""))
        d1 == IF Len(ObsBuckets) > 0
              THEN Set(Set(d0, "ssd_capacity_gb", ssd_capacity), "tiered", TRUE)
              ELSE Set(d0, "tiered", FALSE)
        d2 == IF Len(ObsBuckets) > 0
              THEN Set(d1, "obs_name", Field(ObsBuckets[1], "name", ""))
              ELSE d1
        d3 == Set(d2, "total_capacity_gb", total_capacity)
        d4 == Set(d3, "encrypted", Field(kms, "is_encrypted", FALSE))
        d5 == Set(d4, "auth_required", Field(kms, "auth_required", FALSE))
        d6 == Set(d5, "group_name", Field(kms, "group_name", ""))
    IN  IF ~DecodesAsObject(body) THEN [d |-> d, err |-> DecodeErr]
        ELSE IF Len(ObsBuckets) > 1 THEN [d |-> d1, err |-> UnsupportedConfiguration]
        ELSE [d |-> d6, err |-> NilErr]

\* resourceFilesystemCreate
resourceFilesystemCreate(d, res) ==
    LET base == {"name", "group_name", "total_capacity", "encrypted", "auth_required",
                 "allow_no_kms"}
        tiered == IF Get(d, "tiered") THEN {"obs_name", "ssd_capacity"} ELSE {}
        createData ==
            [f \in base \cup tiered |->
                CASE f = "total_capacity" -> MulGb(Get(d, "total_capacity_gb"))
                  [] f = "ssd_capacity" -> MulGb(Get(d, "ssd_capacity_gb"))
                  [] OTHER -> Get(d, f)]
        c == Call("POST", "/fileSystems", TRUE, createData, res)
    IN  IF c.ret.err # NilErr THEN Result(d, <<c>>, c.ret.err)
        ELSE IF ~DecodesAsObject(c.ret.body) THEN Result(d, <<c>>, DecodeErr)
        ELSE Result(SetId(d, Field(Rec(c.ret.body), "uid", "")), <<c>>, NilErr)

\* resourceFilesystemRead
resourceFilesystemRead(d, res) ==
    LET c == Call("GET", "/fileSystems/" \o d.id, FALSE, NoBody, res)
        x == extractFilesystemJsonData(c.ret.body, d)
    IN  IF c.ret.err # NilErr THEN Result(d, <<c>>, c.ret.err)
        ELSE Result(x.d, <<c>>, x.err)

\* resourceFilesystemDelete
resourceFilesystemDelete(d, res) ==
    LET c == Call("DELETE", "/fileSystems/" \o d.id, FALSE, NoBody, res)
    IN  IF c.ret.err # NilErr THEN Result(d, <<c>>, c.ret.err)
        ELSE Result(SetId(d, ""), <<c>>, NilErr)

\* resourceFilesystemUpdate: the error of the extraction is dropped
resourceFilesystemUpdate(d, res, n) ==
    LET keys == (IF HasChange(d, "name") THEN {"new_name"} ELSE {})
                \cup (IF HasChange(d, "total_capacity_gb") THEN {"total_capacity"} ELSE {})
                \cup (IF HasChange(d, "auth_required") THEN {"auth_required"} ELSE {})
                \cup (IF Get(d, "tiered") /\ HasChange(d, "ssd_capacity_gb")
                      THEN {"ssd_capacity"} ELSE {})
        updateData ==
            [f \in keys |->
                CASE f = "new_name" -> Get(d, "name")
                  [] f = "total_capacity" -> MulGb(Get(d, "total_capacity_gb"))
                  [] f = "ssd_capacity" -> MulGb(Get(d, "total_capacity_gb"))
                  [] OTHER -> Get(d, f)]
        c == Call("PUT", "/fileSystems/" \o d.id, TRUE, updateData, res)
        x == extractFilesystemJsonData(c.ret.body, d)
    IN  IF HasChange(d, "tiered") THEN Result(d, <<>>, ImmutableFieldChanged("tiered"))
        ELSE IF HasChange(d, "obs_name")
        THEN Result(d, <<>>, ImmutableFieldChanged("obs_name"))
        ELSE IF c.ret.err # NilErr THEN Result(d, <<c>>, c.ret.err)
        ELSE Result(SetLastUpdated(x.d, n), <<c>>, NilErr)

\* -------------------------------------------------------- filesystem_group

\* extractFilesystemGroupJsonData: (d, error)
extractFilesystemGroupJsonData(body, d) ==
    LET kms == Rec(body)
        d0 == SetId(d, Field(kms, "uid", ""))
        d1 == Set(d0, "start_demote", Field(kms, "start_demote", 0))
        d2 == Set(d1, "target_ssd_retention", Field(kms, "target_ssd_retention", 0))
        d3 == Set(d2, "name", Field(kms, "name", ""))
    IN  IF ~DecodesAsObject(body) THEN [d |-> d, err |-> DecodeErr]
        ELSE [d |-> d3, err |-> NilErr]

\* resourceFileystemGroupCreate
resourceFileystemGroupCreate(d, res) ==
    LET c == Call("POST", "/fileSystemsGroups", TRUE,
                  Fields(d, {"name", "target_ssd_retention", "start_demote"}), res)
    IN  IF c.ret.err # NilErr THEN Result(d, <<c>>, c.ret.err)
        ELSE IF ~DecodesAsObject(c.ret.body) THEN Result(d, <<c>>, DecodeErr)
        ELSE Result(SetId(d, Field(Rec(c.ret.body), "uid", "")), <<c>>, NilErr)

\* resourceFileystemGroupRead
resourceFileystemGroupRead(d, res) ==
    LET c == Call("GET", "/fileSystemsGroups/" \o d.id, FALSE, NoBody, res)
        x == extractFilesystemGroupJsonData(c.ret.body, d)
    IN  IF c.ret.err # NilErr THEN Result(d, <<c>>, c.ret.err)
        ELSE Result(x.d, <<c>>, x.err)

\* resourceFileystemGroupDelete
resourceFileystemGroupDelete(d, res) ==
    LET c == Call("DELETE", "/fileSystemsGroups/" \o d.id, FALSE, NoBody, res)
    IN  IF c.ret.err # NilErr THEN Result(d, <<c>>, c.ret.err)
        ELSE Result(SetId(d, ""), <<c>>, NilErr)

\* resourceFileystemGroupUpdate: the PUT goes to fileSystemGroups/{id}, and the
\* response is handed to extractFilesystemJsonData, whose error is dropped
resourceFileystemGroupUpdate(d, res, n) ==
    LET keys == (IF HasChange(d, "name") THEN {"new_name"} ELSE {})
                \cup (IF HasChange(d, "target_ssd_retention")
                      THEN {"target_ssd_retention"} ELSE {})
                \cup (IF HasChange(d, "start_demote") THEN {"start_demote"} ELSE {})
        updateData == [f \in keys |-> IF f = "new_name" THEN Get(d, "name") ELSE Get(d, f)]
        c == Call("PUT", "/fileSystemGroups/" \o d.id, TRUE, updateData, res)
        x == extractFilesystemJsonData(c.ret.body, d)
    IN  IF c.ret.err # NilErr THEN Result(d, <<c>>, c.ret.err)
        ELSE Result(SetLastUpdated(x.d, n), <<c>>, NilErr)

\* --------------------------------------------------------------- s3_policy

\* json.Unmarshal of a policy document into a map, and json.Marshal of the
\* map: the document a text denotes, and the text Marshal writes for a
\* document (no white space).
UnmarshalPolicy(text) ==
    CASE text = "{}" -> "doc-empty"
      [] text = "{ }" -> "doc-empty"
      [] text = "{\"Version\":1}" -> "doc-v1"
      [] text = "{ \"Version\": 1 }" -> "doc-v1"
      [] OTHER -> "null"
MarshalPolicy(doc) ==
    CASE doc = "doc-empty" -> "{}"
      [] doc = "doc-v1" -> "{\"Version\":1}"
      [] OTHER -> "null"

\* resourceS3PolicyCreate
resourceS3PolicyCreate(d, res) ==
    LET createParams ==
            [policy_name |-> Get(d, "policy_name"),
             policy_file_content |-> UnmarshalPolicy(Get(d, "policy_file_content"))]
        c == Call("POST", "/s3/policies", TRUE, createParams, res)
    IN  IF createParams.policy_file_content = "null" THEN Result(d, <<>>, DecodeErr)
        ELSE IF c.ret.err # NilErr THEN Result(d, <<c>>, c.ret.err)
        ELSE Result(SetId(d, Get(d, "policy_name")), <<c>>, NilErr)

\* resourceS3PolicyRead: the type assertions on data, policy and name panic
\* when the response lacks them
resourceS3PolicyRead(d, res) ==
    LET c == Call("GET", "/s3/policies/" \o d.id, FALSE, NoBody, res)
        data == Rec(c.ret.body)
        policy == Field(data, "policy", NoRec)
        d1 == Set(d, "policy_name", Field(policy, "name", ""))
        d2 == Set(d1, "policy_file_content", MarshalPolicy(Field(policy, "content", "null")))
    IN  IF c.ret.err # NilErr THEN Result(d, <<c>>, c.ret.err)
        ELSE IF ~c.ret.body.json THEN Result(d, <<c>>, DecodeErr)
        ELSE IF c.ret.body.data.t # "obj" \/ "policy" \notin DOMAIN data
                \/ "name" \notin DOMAIN policy
        THEN Result(d, <<c>>, PanicErr)
        ELSE Result(SetId(d2, policy.name), <<c>>, NilErr)

\* resourceS3PolicyDelete
resourceS3PolicyDelete(d, res) ==
    LET c == Call("DELETE", "/s3/policies/" \o d.id, FALSE, NoBody, res)
    IN  IF c.ret.err # NilErr THEN Result(d, <<c>>, c.ret.err)
        ELSE Result(SetId(d, ""), <<c>>, NilErr)

\* An Update that leaves the identifier as it was.
resourceS3PolicyUpdateKeepId(d, res, n) ==
    LET r == resourceS3PolicyCreate(d, res)
    IN  Result(SetLastUpdated(SetId(r.d, d.id), n), r.calls, r.err)

\* resourceS3PolicyUpdate
resourceS3PolicyUpdate(d, res, n) ==
    LET r == resourceS3PolicyCreate(d, res)
    IN  Result(SetLastUpdated(r.d, n), r.calls, r.err)

\* ------------------------------------------------------------ the remote

\* The failures a call meets: an error envelope under a 200 status, a 404 with
\* a plain message, a 500 with a body that is not JSON, no response at all.
Failures ==
    {Response(200, Envelope("x", "bad", "")),
     Response(404, Envelope("not found", "", "")),
     Response(500, Garbage),
     Dropped}

\* The successes of a call whose response body the handler does not read.
Accepted == {Response(200, Payload(NoRec))}

\* POST /users
UserCreateResponses ==
    Failures \cup {Response(200, Garbage), Response(200, Payload(NoRec))}
    \cup {Response(200, Payload([uid |-> "u1", posix_uid |-> p, posix_gid |-> p])) :
            p \in PosixIds}

\* GET /users: listings of at most two users with distinct uids
UserRecords == [uid: Uids, role: Roles]
UserListings ==
    {<<>>} \cup {<<a>> : a \in UserRecords}
    \cup {<<a, b>> : a \in {x \in UserRecords : x.uid = "u2"},
                     b \in {x \in UserRecords : x.uid = "u1"}}
UserReadResponses ==
    Failures \cup {Response(200, Garbage), Response(200, Payload(NoRec))}
    \cup {Response(200, Listing(l)) : l \in UserListings}

\* A 200 whose body is not JSON, and one whose body is {"data": {}}.
Undecodable == {Response(200, Garbage)}
EmptyRecord == {Response(200, Payload(NoRec))}

\* GET /s3/buckets
BucketListings ==
    {<<>>, <<[name |-> "bkt1"]>>, <<[name |-> "bkt2"]>>,
     <<[name |-> "bkt2"], [name |-> "bkt1"]>>}
BucketReadResponses ==
    Failures \cup Undecodable \cup EmptyRecord
    \cup {Response(200, Payload([buckets |-> l])) : l \in BucketListings}

\* GET /s3/userPolicies: maps from some user names to policy names
UserPolicyMaps ==
    UNION {[us -> PolicyNames] : us \in SUBSET Usernames}
UserPolicyReadResponses ==
    Failures \cup Undecodable \cup EmptyRecord
    \cup {Response(200, Payload([users |-> m])) : m \in UserPolicyMaps}

\* GET /kms
KmsRecords ==
    {[params |-> [master_key_name |-> n, base_url |-> u], kms_type |-> "vault"] :
        n \in Names, u \in Urls}
KmsReadResponses ==
    Failures \cup Undecodable \cup EmptyRecord
    \cup {Response(200, Payload(r)) : r \in KmsRecords}

\* POST /fileSystems, GET and PUT /fileSystems/{id}
FsRecords ==
    [uid: {"fs1"}, used_total: {Bytes(0, 600000000)},
     available_total: {Bytes(3, 400000000), Bytes(1, 0)},
     used_ssd: {Bytes(0, 0)}, available_ssd: {Bytes(1, 0)},
     obs_buckets: {<<>>, <<[name |-> "obs1"]>>, <<[name |-> "obs1"], [name |-> "obs2"]>>},
     is_encrypted: {FALSE}, auth_required: {TRUE}, group_name: {"default"}]
FsCreateResponses ==
    Failures \cup Undecodable \cup EmptyRecord \cup {Response(200, Payload([uid |-> "fs1"]))}
FsReadResponses ==
    Failures \cup Undecodable \cup EmptyRecord
    \cup {Response(200, Payload(r)) : r \in FsRecords}

\* POST /fileSystemsGroups, GET /fileSystemsGroups/{id}, PUT
FsGroupRecords ==
    [uid: {"g1"}, name: Names, start_demote: {1, 2}, target_ssd_retention: {10, 20}]
FsGroupResponses ==
    Failures \cup Undecodable \cup EmptyRecord
    \cup {Response(200, Payload(r)) : r \in FsGroupRecords}

\* GET /s3/policies/{id}
PolicyRecords ==
    {[policy |-> [name |-> n, content |-> c]] :
        n \in PolicyNames, c \in {"doc-empty", "doc-v1"}}
PolicyReadResponses ==
    Failures \cup Undecodable \cup EmptyRecord
    \cup {Response(200, Payload(r)) : r \in PolicyRecords}

\* ------------------------------------------------------------ the session

\* The provider configuration: each input is set or empty; an endpoint that is
\* set is an absolute URI or not.
Configs ==
    [username: {"", "admin"}, password: {"", "secret"}, org: {"", Org},
     endpoint: {"", "https://weka", "weka"}]

\* url.ParseRequestURI(endpoint) == nil
ParsesAsURI(endpoint) == endpoint = "https://weka"

\* strings.ToLower, on the token types the remote answers with
ToLower(str) ==
    CASE str = "Bearer" -> "bearer"
      [] str = "BEARER" -> "bearer"
      [] OTHER -> str

\* The answers to POST /login
LoginResponses ==
    {Dropped, Response(401, Envelope("unauthorized", "", "")),
     Response(500, Garbage), Response(200, Garbage),
     Response(200, Envelope("x", "bad", "")),
     Response(404, Payload([access_token |-> "tokA", token_type |-> "bearer"]))}
    \cup {Response(200, Payload([access_token |-> "tokA", token_type |-> t])) :
            t \in {"bearer", "basic", ""}}
    \cup {Response(200, Payload([access_token |-> "tokB", token_type |-> "Bearer"]))}

NoClient == [none |-> TRUE]
NotConfigured == [state |-> "none"]

\* What providerConfigure returns: the client or nil, and the diagnostics;
\* with the inputs it was given and the login call it issued, if any.
Configured(config, posted, client, err) ==
    [state |-> IF err = NilErr THEN "ok" ELSE "failed", config |-> config,
     calls |-> posted, client |-> client, err |-> err]

\* A providerConfigure that compares the token type as it came.
providerConfigureCaseSensitive(config, res) ==
    LET post == [method |-> "POST", path |-> "/login",
                 body |-> [username |-> config.username, password |-> config.password,
                           org |-> config.org],
                 res |-> res]
        wr == Rec(res.body)
        c == [authResponse |-> [access_token |-> Field(wr, "access_token", ""),
                                token_type |-> Field(wr, "token_type", "")],
              endPoint |-> config.endpoint, org |-> config.org]
    IN  IF config.username = "" \/ config.password = "" \/ config.org = ""
           \/ config.endpoint = ""
        THEN Configured(config, <<>>, NoClient, ConfigurationError)
        ELSE IF ~ParsesAsURI(config.endpoint)
        THEN Configured(config, <<>>, NoClient, ConfigurationError)
        ELSE IF ~res.delivered THEN Configured(config, <<post>>, NoClient, TransportErr)
        ELSE IF res.status # StatusOK
        THEN Configured(config, <<post>>, NoClient, AuthenticationError(res.status))
        ELSE IF ~DecodesAsObject(res.body)
        THEN Configured(config, <<post>>, NoClient, DecodeErr)
        ELSE IF Field(wr, "token_type", "") # "bearer"
        THEN Configured(config, <<post>>, NoClient, AuthenticationError(res.status))
        ELSE Configured(config, <<post>>, c, NilErr)

\* A providerConfigure that requires only the credentials.
providerConfigureCredentialsOnly(config, res) ==
    LET post == [method |-> "POST", path |-> "/login",
                 body |-> [username |-> config.username, password |-> config.password,
                           org |-> config.org],
                 res |-> res]
        wr == Rec(res.body)
        c == [authResponse |-> [access_token |-> Field(wr, "access_token", ""),
                                token_type |-> Field(wr, "token_type", "")],
              endPoint |-> config.endpoint, org |-> config.org]
    IN  IF config.username = "" \/ config.password = ""
        THEN Configured(config, <<>>, NoClient, ConfigurationError)
        ELSE IF ~res.delivered THEN Configured(config, <<post>>, NoClient, TransportErr)
        ELSE IF res.status # StatusOK
        THEN Configured(config, <<post>>, NoClient, AuthenticationError(res.status))
        ELSE IF ~DecodesAsObject(res.body)
        THEN Configured(config, <<post>>, NoClient, DecodeErr)
        ELSE IF ToLower(Field(wr, "token_type", "")) # "bearer"
        THEN Configured(config, <<post>>, NoClient, AuthenticationError(res.status))
        ELSE Configured(config, <<post>>, c, NilErr)

\* providerConfigure
providerConfigure(config, res) ==
    LET post == [method |-> "POST", path |-> "/login",
                 body |-> [username |-> config.username, password |-> config.password,
                           org |-> config.org],
                 res |-> res]
        wr == Rec(res.body)
        c == [authResponse |-> [access_token |-> Field(wr, "access_token", ""),
                                token_type |-> Field(wr, "token_type", "")],
              endPoint |-> config.endpoint, org |-> config.org]
    IN  IF config.username = "" \/ config.password = "" \/ config.org = ""
           \/ config.endpoint = ""
        THEN Configured(config, <<>>, NoClient, ConfigurationError)
        ELSE IF ~ParsesAsURI(config.endpoint)
        THEN Configured(config, <<>>, NoClient, ConfigurationError)
        ELSE IF ~res.delivered THEN Configured(config, <<post>>, NoClient, TransportErr)
        ELSE IF res.status # StatusOK
        THEN Configured(config, <<post>>, NoClient, AuthenticationError(res.status))
        ELSE IF ~DecodesAsObject(res.body)
        THEN Configured(config, <<post>>, NoClient, DecodeErr)
        ELSE IF ToLower(Field(wr, "token_type", "")) # "bearer"
        THEN Configured(config, <<post>>, NoClient, AuthenticationError(res.status))
        ELSE Configured(config, <<post>>, c, NilErr)

\* A header set only where the content type is set.
addHeadersToRequestWithBody(r, w) ==
    [f \in DOMAIN r \cup {"authorization", "contentType"} |->
        CASE f = "authorization" ->
               IF r.method \in {"POST", "PUT"}
               THEN "Bearer " \o w.authResponse.access_token ELSE ""
          [] f = "contentType" ->
               IF r.method \in {"POST", "PUT"}
               THEN "application/json; charset=utf-8" ELSE ""
          [] OTHER -> r[f]]

\* addHeadersToRequest: the request r with the headers makeRequest puts on it
addHeadersToRequest(r, w) ==
    [f \in DOMAIN r \cup {"authorization", "contentType"} |->
        CASE f = "authorization" -> "Bearer " \o w.authResponse.access_token
          [] f = "contentType" ->
               IF r.method \in {"POST", "PUT"}
               THEN "application/json; charset=utf-8" ELSE ""
          [] OTHER -> r[f]]

\* ------------------------------------------------------------- the host

\* The plans the host calls Update with: a declarable configuration that
\* differs from the stored state in a field the configuration sets, and in no
\* ForceNew field; Computed fields keep their stored value.
WithComputed(k, p, a) ==
    [f \in DOMAIN p |-> IF f \in Computed(k) THEN a[f] ELSE p[f]]
UpdatePlans(k, a) ==
    {q \in {WithComputed(k, p, a) : p \in Declared(k)} :
        /\ q # a
        /\ \A f \in ForceNew(k) : q[f] = a[f]}

\* The state the SDK hands to the host after a handler returned r
\* (schema.Resource.Apply and RefreshWithoutUpgrade): after Create and Update
\* it is d.State(), error or not; a failed Read leaves the stored state as it
\* was; Delete leaves d.State() on error and nothing on success.
HostState(name, r) ==
    CASE name \in {"Create", "Update"} -> State(r.d)
      [] name = "Read" ->
           IF r.err # NilErr THEN [id |-> id, attrs |-> attrs] ELSE State(r.d)
      [] name = "Delete" ->
           IF r.err # NilErr THEN State(r.d) ELSE Absent(r.d.kind)

\* No Create was the latest operation, or it failed.
NoCreate == [ok |-> FALSE]

NoOp == [name |-> "none", plan |-> Zero("user"), prevId |-> "", prevAttrs |-> Zero("user"),
         err |-> NilErr, after |-> NoCreate]

\* One handler invocation: the host stores what the SDK hands back.
Apply(name, plan, r) ==
    /\ id' = HostState(name, r).id
    /\ attrs' = HostState(name, r).attrs
    /\ op' = [name |-> name, plan |-> plan, prevId |-> id, prevAttrs |-> attrs,
              err |-> r.err, after |-> IF name = "Read" THEN created ELSE NoCreate]
    /\ calls' = [i \in DOMAIN r.calls |-> addHeadersToRequest(r.calls[i], session.client)]
    /\ created' = IF name = "Create" /\ r.err = NilErr /\ r.calls # <<>>
                  THEN [ok |-> TRUE, plan |-> plan, body |-> r.calls[1].body]
                  ELSE NoCreate
    /\ UNCHANGED <<kind, now, session, peers>>

\* The provider is configured, and no operation is in progress or awaiting
\* its result to be recorded.
Idle == session.state = "ok" /\ op.name = "none"

\* The host has recorded the outcome of the last operation; its log is dropped
\* before the next operation starts.
Settle ==
    /\ op.name # "none"
    /\ op' = NoOp
    /\ calls' = <<>>
    /\ UNCHANGED <<kind, id, attrs, now, created, session, peers>>

Init ==
    /\ kind \in Kinds
    /\ id = ""
    /\ attrs = Zero(kind)
    /\ now = 1
    /\ op = NoOp
    /\ calls = <<>>
    /\ created = NoCreate
    /\ session = NotConfigured
    /\ peers = <<>>

\* The SDK configures the provider, once, before it calls any handler.
Configure ==
    /\ session.state = "none"
    /\ \E config \in Configs, res \in LoginResponses :
          session' = providerConfigure(config, res)
    /\ UNCHANGED <<kind, id, attrs, now, op, calls, created, peers>>

\* The clock advances between operations.  Only the kinds whose identifier is
\* read off the clock (kms, user_s3_policy) observe more than one instant.
Tick ==
    /\ Idle /\ kind \in {"kms", "user_s3_policy"}
    /\ now < MaxClock
    /\ now' = now + 1
    /\ UNCHANGED <<kind, id, attrs, op, calls, created, session, peers>>

\* The SDK validates a written enum field (schemaMap.validate calls the
\* field's ValidateFunc) before it plans: nothing is sent, nothing is stored.
ValidateEnum ==
    /\ Idle /\ kind \in {"user", "s3_bucket"}
    /\ \E v \in (IF kind = "user" THEN RoleAttempts ELSE AnonymousPolicyAttempts) :
          LET key == IF kind = "user" THEN "role" ELSE "anonymous_policy_name"
              ok == IF kind = "user" THEN ValidateRole(v) ELSE ValidateAnonymousPolicy(v)
          IN  op' = [name |-> "Validate", plan |-> [attrs EXCEPT ![key] = v],
                     prevId |-> id, prevAttrs |-> attrs,
                     err |-> IF ok THEN NilErr ELSE ValidationError(key),
                     after |-> NoCreate]
    /\ calls' = <<>>
    /\ UNCHANGED <<kind, id, attrs, now, created, session, peers>>

UserCreate ==
    /\ kind = "user" /\ id = "" /\ Idle
    /\ \E plan \in Declared(kind), res \in UserCreateResponses :
          Apply("Create", plan, resourceUserCreate(NewData(kind, id, attrs, plan), res))

UserRead ==
    /\ kind = "user" /\ id # "" /\ Idle
    /\ \E res \in UserReadResponses :
          Apply("Read", attrs, resourceUserRead(NewData(kind, id, attrs, attrs), res))

UserUpdate ==
    /\ kind = "user" /\ id # "" /\ Idle
    /\ \E plan \in UpdatePlans(kind, attrs), res1, res2 \in Failures \cup Accepted :
          Apply("Update", plan,
                resourceUserUpdate(NewData(kind, id, attrs, plan), res1, res2, now))

UserDelete ==
    /\ kind = "user" /\ id # "" /\ Idle
    /\ \E res \in Failures \cup Accepted :
          Apply("Delete", attrs, resourceUserDelete(NewData(kind, id, attrs, attrs), res))

BucketCreate ==
    /\ kind = "s3_bucket" /\ id = "" /\ Idle
    /\ \E plan \in Declared(kind), res \in Failures \cup Accepted :
          Apply("Create", plan, resourceS3BucketCreate(NewData(kind, id, attrs, plan), res))

BucketRead ==
    /\ kind = "s3_bucket" /\ id # "" /\ Idle
    /\ \E res \in BucketReadResponses :
          Apply("Read", attrs, resourceS3BucketRead(NewData(kind, id, attrs, attrs), res))

BucketUpdate ==
    /\ kind = "s3_bucket" /\ id # "" /\ Idle
    /\ \E plan \in UpdatePlans(kind, attrs), res1, res2 \in Failures \cup Accepted :
          Apply("Update", plan,
                resourceS3BucketUpdate(NewData(kind, id, attrs, plan), res1, res2, now))

BucketDelete ==
    /\ kind = "s3_bucket" /\ id # "" /\ Idle
    /\ \E res \in Failures \cup Accepted :
          Apply("Delete", attrs, resourceS3BucketDelete(NewData(kind, id, attrs, attrs), res))

UserPolicyCreate ==
    /\ kind = "user_s3_policy" /\ id = "" /\ Idle
    /\ \E plan \in Declared(kind), res \in Failures \cup Accepted :
          Apply("Create", plan,
                resourceUserPolicyCreate(NewData(kind, id, attrs, plan), res, now))

UserPolicyRead ==
    /\ kind = "user_s3_policy" /\ id # "" /\ Idle
    /\ \E res \in UserPolicyReadResponses :
          Apply("Read", attrs, resourceUserPolicyRead(NewData(kind, id, attrs, attrs), res))

UserPolicyUpdate ==
    /\ kind = "user_s3_policy" /\ id # "" /\ Idle
    /\ \E plan \in UpdatePlans(kind, attrs), res1, res2 \in Failures \cup Accepted :
          Apply("Update", plan,
                resourceUserPolicyUpdate(NewData(kind, id, attrs, plan), res1, res2, now))

UserPolicyDelete ==
    /\ kind = "user_s3_policy" /\ id # "" /\ Idle
    /\ \E res \in Failures \cup Accepted :
          Apply("Delete", attrs,
                resourceUserPolicyDelete(NewData(kind, id, attrs, attrs), res))

KMSCreate ==
    /\ kind = "kms" /\ id = "" /\ Idle
    /\ \E plan \in Declared(kind), res1 \in Failures \cup Accepted, res2 \in KmsReadResponses :
          Apply("Create", plan,
                resourceKMSCreate(NewData(kind, id, attrs, plan), res1, res2, now))

KMSRead ==
    /\ kind = "kms" /\ id # "" /\ Idle
    /\ \E res \in KmsReadResponses :
          Apply("Read", attrs, resourceKMSRead(NewData(kind, id, attrs, attrs), res, now))

KMSUpdate ==
    /\ kind = "kms" /\ id # "" /\ Idle
    /\ \E plan \in UpdatePlans(kind, attrs), res1 \in Failures \cup Accepted,
          res2 \in KmsReadResponses :
          Apply("Update", plan,
                resourceKMSUpdate(NewData(kind, id, attrs, plan), res1, res2, now))

KMSDelete ==
    /\ kind = "kms" /\ id # "" /\ Idle
    /\ \E res \in Failures \cup Accepted :
          Apply("Delete", attrs, resourceKMSDelete(NewData(kind, id, attrs, attrs), res))

FilesystemCreate ==
    /\ kind = "filesystem" /\ id = "" /\ Idle
    /\ \E plan \in Declared(kind), res \in FsCreateResponses :
          Apply("Create", plan, resourceFilesystemCreate(NewData(kind, id, attrs, plan), res))

FilesystemRead ==
    /\ kind = "filesystem" /\ id # "" /\ Idle
    /\ \E res \in FsReadResponses :
          Apply("Read", attrs, resourceFilesystemRead(NewData(kind, id, attrs, attrs), res))

FilesystemUpdate ==
    /\ kind = "filesystem" /\ id # "" /\ Idle
    /\ \E plan \in UpdatePlans(kind, attrs), res \in FsReadResponses :
          Apply("Update", plan,
                resourceFilesystemUpdate(NewData(kind, id, attrs, plan), res, now))

FilesystemDelete ==
    /\ kind = "filesystem" /\ id # "" /\ Idle
    /\ \E res \in Failures \cup Accepted :
          Apply("Delete", attrs,
                resourceFilesystemDelete(NewData(kind, id, attrs, attrs), res))

FilesystemGroupCreate ==
    /\ kind = "filesystem_group" /\ id = "" /\ Idle
    /\ \E plan \in Declared(kind), res \in FsGroupResponses :
          Apply("Create", plan,
                resourceFileystemGroupCreate(NewData(kind, id, attrs, plan), res))

FilesystemGroupRead ==
    /\ kind = "filesystem_group" /\ id # "" /\ Idle
    /\ \E res \in FsGroupResponses :
          Apply("Read", attrs,
                resourceFileystemGroupRead(NewData(kind, id, attrs, attrs), res))

FilesystemGroupUpdate ==
    /\ kind = "filesystem_group" /\ id # "" /\ Idle
    /\ \E plan \in UpdatePlans(kind, attrs), res \in FsGroupResponses :
          Apply("Update", plan,
                resourceFileystemGroupUpdate(NewData(kind, id, attrs, plan), res, now))

FilesystemGroupDelete ==
    /\ kind = "filesystem_group" /\ id # "" /\ Idle
    /\ \E res \in Failures \cup Accepted :
          Apply("Delete", attrs,
                resourceFileystemGroupDelete(NewData(kind, id, attrs, attrs), res))

S3PolicyCreate ==
    /\ kind = "s3_policy" /\ id = "" /\ Idle
    /\ \E plan \in Declared(kind), res \in Failures \cup Accepted :
          Apply("Create", plan, resourceS3PolicyCreate(NewData(kind, id, attrs, plan), res))

S3PolicyRead ==
    /\ kind = "s3_policy" /\ id # "" /\ Idle
    /\ \E res \in PolicyReadResponses :
          Apply("Read", attrs, resourceS3PolicyRead(NewData(kind, id, attrs, attrs), res))

S3PolicyUpdate ==
    /\ kind = "s3_policy" /\ id # "" /\ Idle
    /\ \E plan \in UpdatePlans(kind, attrs), res \in Failures \cup Accepted :
          Apply("Update", plan,
                resourceS3PolicyUpdate(NewData(kind, id, attrs, plan), res, now))

S3PolicyDelete ==
    /\ kind = "s3_policy" /\ id # "" /\ Idle
    /\ \E res \in Failures \cup Accepted :
          Apply("Delete", attrs, resourceS3PolicyDelete(NewData(kind, id, attrs, attrs), res))

Next ==
    \/ Configure
    \/ Tick
    \/ Settle
    \/ ValidateEnum
    \/ UserCreate \/ UserRead \/ UserUpdate \/ UserDelete
    \/ BucketCreate \/ BucketRead \/ BucketUpdate \/ BucketDelete
    \/ UserPolicyCreate \/ UserPolicyRead \/ UserPolicyUpdate \/ UserPolicyDelete
    \/ KMSCreate \/ KMSRead \/ KMSUpdate \/ KMSDelete
    \/ FilesystemCreate \/ FilesystemRead \/ FilesystemUpdate \/ FilesystemDelete
    \/ FilesystemGroupCreate \/ FilesystemGroupRead \/ FilesystemGroupUpdate
    \/ FilesystemGroupDelete
    \/ S3PolicyCreate \/ S3PolicyRead \/ S3PolicyUpdate \/ S3PolicyDelete

Spec == Init /\ [][Next]_vars

\* --------------------------------------------------- the transport alone

\* The responses makeRequest classifies: every status with every shape of
\* body (not JSON; JSON without "data"; "data" an object with or without
\* error and reason; "data" an array), and no response at all.
Statuses == {200, 404, 500}
Messages == {"", "gone"}
TransportBodies ==
    {Garbage}
    \cup {Json(m, NoData) : m \in Messages}
    \cup {Json(m, ObjData(e, r, NoRec)) : m \in Messages, e \in {"", "bad"},
                                          r \in {"", "missing"}}
    \cup {Json(m, ListData(<<>>)) : m \in Messages}
TransportResponses ==
    {Dropped} \cup {Response(st, b) : st \in Statuses, b \in TransportBodies}
Methods == {"GET", "POST", "PUT", "DELETE"}

\* One request handed to makeRequest; the log holds it and what it returned.
MakeRequest ==
    /\ \E method \in Methods, res \in TransportResponses :
          calls' = <<Call(method, "/", FALSE, NoBody, res)>>
    /\ UNCHANGED <<kind, id, attrs, now, op, created, session, peers>>

SpecTransport == Init /\ [][MakeRequest]_vars

\* ---------------------------------------------------------- two instances

\* The host reconciles distinct instances of one resource type in parallel;
\* their handlers share the one WekaClient and take no lock.  Each handler's
\* requests go out one at a time, interleaved with the other's.
Peers == {1, 2}

IdlePeer(i, a) ==
    [pc |-> "idle", name |-> "none", id |-> i, attrs |-> a,
     calls |-> <<>>, sent |-> 0, err |-> NilErr]

\* The answers the remote gives to the handlers of parallel instances.
PeerResponses == Accepted \cup {Dropped}
PeerReadResponses ==
    {Dropped} \cup {Response(200, Payload(r)) : r \in KmsRecords}

\* A handler starts on instance i; r is what it will have done when it returns.
PeerBegin(i, name, r) ==
    peers' = [peers EXCEPT ![i] =
                [pc |-> "busy", name |-> name,
                 id |-> HostState(name, r).id, attrs |-> HostState(name, r).attrs,
                 calls |-> [j \in DOMAIN r.calls |->
                               addHeadersToRequest(r.calls[j], session.client)],
                 sent |-> 0, err |-> r.err]]

InitConcurrent ==
    /\ kind \in {"kms", "user_s3_policy"}
    /\ id = ""
    /\ attrs = Zero(kind)
    /\ now = 1
    /\ op = NoOp
    /\ calls = <<>>
    /\ created = NoCreate
    /\ session \in {providerConfigure(config, res) :
                       config \in Configs, res \in LoginResponses}
    /\ session.state = "ok" /\ session.client.authResponse.access_token = "tokA"
    /\ session.client.authResponse.token_type = "bearer"
    /\ peers = [i \in Peers |-> IdlePeer("", Zero(kind))]

PeerCreate ==
    /\ \E i \in Peers :
          /\ peers[i].pc = "idle" /\ peers[i].id = ""
          /\ \E plan \in Declared(kind), res1 \in PeerResponses,
                res2 \in PeerReadResponses :
                LET d == NewData(kind, "", peers[i].attrs, plan)
                IN  PeerBegin(i, "Create",
                              IF kind = "kms"
                              THEN resourceKMSCreate(d, res1, res2, now)
                              ELSE resourceUserPolicyCreate(d, res1, now))
    /\ UNCHANGED <<kind, id, attrs, now, op, calls, created, session>>

PeerDelete ==
    /\ \E i \in Peers :
          /\ peers[i].pc = "idle" /\ peers[i].id # ""
          /\ \E res \in PeerResponses :
                LET d == NewData(kind, peers[i].id, peers[i].attrs, peers[i].attrs)
                IN  PeerBegin(i, "Delete",
                              IF kind = "kms"
                              THEN resourceKMSDelete(d, res)
                              ELSE resourceUserPolicyDelete(d, res))
    /\ UNCHANGED <<kind, id, attrs, now, op, calls, created, session>>

\* The running handler's next request goes out.
PeerSend ==
    /\ \E i \in Peers :
          /\ peers[i].pc = "busy" /\ peers[i].sent < Len(peers[i].calls)
          /\ peers' = [peers EXCEPT ![i].sent = @ + 1]
    /\ UNCHANGED <<kind, id, attrs, now, op, calls, created, session>>

\* The handler returns and the host stores what the SDK hands back.
PeerReturn ==
    /\ \E i \in Peers :
          /\ peers[i].pc = "busy" /\ peers[i].sent = Len(peers[i].calls)
          /\ peers' = [peers EXCEPT ![i] = IdlePeer(@.id, @.attrs)]
    /\ UNCHANGED <<kind, id, attrs, now, op, calls, created, session>>

NextConcurrent == PeerCreate \/ PeerDelete \/ PeerSend \/ PeerReturn

SpecConcurrent == InitConcurrent /\ [][NextConcurrent]_vars

\* ------------------------------------------------------------- properties

\* The response carries the error flag: its body parses as the error envelope
\* and data.error or data.reason is not empty.
Flagged(res) ==
    /\ res.delivered
    /\ ParsesAsWER(res.body)
    /\ (WerError(res.body) # "" \/ WerReason(res.body) # "")

\* The logged call failed / the last operation declared a change of field f.
Failed(c) == c.ret.err # NilErr
Changed(f) == op.prevAttrs[f] # op.plan[f]

\* C1: every response, whatever its status, whose body parses as the error
\* envelope with a non-empty data.error or data.reason makes makeRequest return
\* RemoteRejected with the envelope's message, and no payload.
C1_StructureFirst ==
    \A i \in DOMAIN calls :
        Flagged(calls[i].res) =>
            /\ calls[i].ret.err = RemoteRejected(calls[i].res.body.message)
            /\ calls[i].ret.body = NilBody

\* A 404 whose body is {"message":"gone","data":{"reason":"missing"}} was
\* classified RemoteRejected with the message "gone".
C1_Witness ==
    \E i \in DOMAIN calls :
        /\ calls[i].res = Response(404, Envelope("gone", "", "missing"))
        /\ calls[i].ret.err.type = "RemoteRejected"
        /\ calls[i].ret.err.message = "gone"

\* C2: a response without the error flag and with a status other than 200
\* makes makeRequest fail with RemoteHTTPError carrying the status; the error
\* has a message exactly when the body parsed with a non-empty message, and
\* then it is that message.
C2_HTTPError ==
    \A i \in DOMAIN calls :
        LET res == calls[i].res
            ret == calls[i].ret
        IN  (res.delivered /\ ~Flagged(res) /\ res.status # 200) =>
                /\ ret.err.type = "RemoteHTTPError"
                /\ ret.err.status = res.status
                /\ ret.err.hasMessage <=> (ParsesAsWER(res.body) /\ res.body.message # "")
                /\ ret.err.hasMessage => ret.err.message = res.body.message

\* A 500 whose body is not JSON was classified RemoteHTTPError 500 without a
\* message.
C2_Witness ==
    \E i \in DOMAIN calls :
        /\ calls[i].res = Response(500, Garbage)
        /\ calls[i].ret.err.type = "RemoteHTTPError"
        /\ calls[i].ret.err.status = 500
        /\ ~calls[i].ret.err.hasMessage

\* C3: makeRequest succeeds exactly when the status is 200 and the response
\* carries no error flag; it then returns the body as it came, and a nil error.
C3_SuccessIff200Unflagged ==
    \A i \in DOMAIN calls :
        LET res == calls[i].res
            ret == calls[i].ret
        IN  /\ (ret.err = NilErr) <=> (res.delivered /\ res.status = 200 /\ ~Flagged(res))
            /\ (ret.err = NilErr) => ret.body = res.body

\* A 200 whose body is not JSON was returned as the payload.
C3_Witness ==
    \E i \in DOMAIN calls :
        /\ calls[i].res = Response(200, Garbage)
        /\ calls[i].ret.err = NilErr
        /\ calls[i].ret.body = Garbage

\* C4: an Update whose change-set holds user.username, filesystem.tiered or
\* filesystem.obs_name ends with ImmutableFieldChanged and has issued no
\* remote call, whatever else changed.
C4_ImmutableFieldChanged ==
    op.name = "Update" =>
        /\ (kind = "user" /\ Changed("username")) =>
               (op.err.type = "ImmutableFieldChanged" /\ calls = <<>>)
        /\ (kind = "filesystem" /\ (Changed("tiered") \/ Changed("obs_name"))) =>
               (op.err.type = "ImmutableFieldChanged" /\ calls = <<>>)

\* A filesystem Update that changed tiered together with name and
\* total_capacity_gb was refused without a call.
C4_Witness ==
    /\ op.name = "Update" /\ kind = "filesystem"
    /\ Changed("tiered") /\ Changed("name") /\ Changed("total_capacity_gb")
    /\ op.err = ImmutableFieldChanged("tiered")
    /\ calls = <<>>

\* C5: when the first sub-call of a user or bucket Update succeeded and the
\* second failed, the Update reports a failure and the state handed to the
\* host has the first sub-call's field at its new value (user: password;
\* bucket: hard_quota) and the second sub-call's fields at their previous
\* values (user: role, posix_uid, posix_gid; bucket: anonymous_policy_name).
C5_PartialApply ==
    (op.name = "Update" /\ kind \in {"user", "s3_bucket"} /\ Len(calls) = 2
        /\ ~Failed(calls[1]) /\ Failed(calls[2])) =>
        /\ op.err # NilErr
        /\ kind = "user" =>
               /\ attrs.password = op.plan.password
               /\ attrs.role = op.prevAttrs.role
               /\ attrs.posix_uid = op.prevAttrs.posix_uid
               /\ attrs.posix_gid = op.prevAttrs.posix_gid
        /\ kind = "s3_bucket" =>
               /\ attrs.hard_quota = op.plan.hard_quota
               /\ attrs.anonymous_policy_name = op.prevAttrs.anonymous_policy_name

\* C6: in every Update a failed sub-call is the last one issued, and its error
\* is the error the Update returns.
C6_StopAtFirstFailure ==
    op.name = "Update" =>
        \A i \in DOMAIN calls :
            Failed(calls[i]) => (i = Len(calls) /\ op.err = calls[i].ret.err)

\* C7: a bucket Update that changes hard_quota and anonymous_policy_name, and
\* nothing else, issues PUT /s3/buckets/{id}/quota first and
\* PUT /s3/buckets/{id}/policy second, each once and no other call (the second
\* only when the first succeeded); when both succeed the Update succeeds and
\* both fields are recorded at their new values.
C7_BucketQuotaThenPolicy ==
    (op.name = "Update" /\ kind = "s3_bucket"
        /\ {f \in DOMAIN op.plan : Changed(f)} = {"hard_quota", "anonymous_policy_name"}) =>
        /\ Len(calls) \in {1, 2}
        /\ calls[1].method = "PUT"
        /\ calls[1].path = "/s3/buckets/" \o op.prevId \o "/quota"
        /\ Len(calls) = 2 <=> ~Failed(calls[1])
        /\ Len(calls) = 2 =>
               /\ calls[2].method = "PUT"
               /\ calls[2].path = "/s3/buckets/" \o op.prevId \o "/policy"
               /\ ~Failed(calls[2]) =>
                      /\ op.err = NilErr
                      /\ id = op.prevId
                      /\ attrs.hard_quota = op.plan.hard_quota
                      /\ attrs.anonymous_policy_name = op.plan.anonymous_policy_name

\* A bucket Update of both fields issued the two PUTs, both succeeded, and the
\* host holds both new values.
C7_Witness ==
    /\ op.name = "Update" /\ kind = "s3_bucket"
    /\ Changed("hard_quota") /\ Changed("anonymous_policy_name")
    /\ Len(calls) = 2 /\ ~Failed(calls[1]) /\ ~Failed(calls[2])
    /\ calls[1].path = "/s3/buckets/" \o id \o "/quota"
    /\ calls[2].path = "/s3/buckets/" \o id \o "/policy"
    /\ op.err = NilErr
    /\ attrs.hard_quota = op.plan.hard_quota /\ op.plan.hard_quota = "2GB"
    /\ attrs.anonymous_policy_name = op.plan.anonymous_policy_name

\* C8: a list-scan Read (user, bucket, binding) whose GET succeeded with a
\* listing in which no record matches the instance (no user with the
\* instance's uid, no bucket with its name, no entry for its declared
\* username) succeeds and clears the identifier.
C8_ListScanNotFound ==
    (op.name = "Read" /\ Len(calls) = 1 /\ ~Failed(calls[1])) =>
        LET body == calls[1].ret.body
            users == Items(body)
            buckets == Field(Rec(body), "buckets", <<>>)
            bindings == Field(Rec(body), "users", <<>>)
        IN  /\ (kind = "user" /\ DecodesAsList(body)
                  /\ \A i \in DOMAIN users : Field(users[i], "uid", "") # op.prevId) =>
                   (op.err = NilErr /\ id = "")
            /\ (kind = "s3_bucket" /\ DecodesAsObject(body)
                  /\ \A i \in DOMAIN buckets : Field(buckets[i], "name", "") # op.prevId) =>
                   (op.err = NilErr /\ id = "")
            /\ (kind = "user_s3_policy" /\ DecodesAsObject(body)
                  /\ op.prevAttrs.username \notin DOMAIN bindings) =>
                   (op.err = NilErr /\ id = "")

\* C9: a direct-lookup Read (filesystem, filesystem group, access policy, KMS)
\* whose GET was answered 404 reports NotFound: no error, identifier cleared.
C9_DirectLookupNotFound ==
    (op.name = "Read" /\ kind \in {"filesystem", "filesystem_group", "s3_policy", "kms"}
        /\ Len(calls) = 1 /\ calls[1].res.delivered /\ calls[1].res.status = 404) =>
        (op.err = NilErr /\ id = "")

\* C10: every Delete issues one remote call; when it succeeded the Delete
\* succeeds and the identifier is cleared; when it failed, in whatever way,
\* the Delete returns that failure and the identifier is the one it had.
C10_DeleteClearsOnlyOnSuccess ==
    op.name = "Delete" =>
        /\ Len(calls) = 1
        /\ ~Failed(calls[1]) => (op.err = NilErr /\ id = "")
        /\ Failed(calls[1]) =>
               (op.err = calls[1].ret.err /\ id = op.prevId /\ id # "")

\* A Delete answered 404 "not found" failed and left the instance Present.
C10_Witness ==
    /\ op.name = "Delete"
    /\ Len(calls) = 1
    /\ calls[1].res = Response(404, Envelope("not found", "", ""))
    /\ op.err = RemoteHTTPError(404, "not found")
    /\ id = op.prevId /\ id # ""

\* The body of a Read response is the answer of a remote that stored, under
\* the identifier i, what the Create body sent said (kind k).
RemoteStores(k, sent, i, body) ==
    LET rec == Rec(body)
        users == Items(body)
        buckets == Field(rec, "buckets", <<>>)
        bindings == Field(rec, "users", <<>>)
        obs == Field(rec, "obs_buckets", <<>>)
        params == Field(rec, "params", NoRec)
        policy == Field(rec, "policy", NoRec)
    IN  CASE k = "user" ->
               /\ DecodesAsList(body)
               /\ \E n \in DOMAIN users :
                      Field(users[n], "uid", "") = i /\ Field(users[n], "role", "") = sent.role
               /\ \A n, m \in DOMAIN users :
                      Field(users[n], "uid", "") = Field(users[m], "uid", "") => n = m
          [] k = "kms" ->
               /\ DecodesAsObject(body)
               /\ Field(params, "base_url", "") = sent.base_url
               /\ Field(params, "master_key_name", "") = sent.master_key_name
          [] k = "filesystem" ->
               /\ DecodesAsObject(body)
               /\ Field(rec, "uid", "") = i
               /\ AddBytes(Field(rec, "available_total", Bytes(0, 0)),
                           Field(rec, "used_total", Bytes(0, 0))) = sent.total_capacity
               /\ Field(rec, "is_encrypted", FALSE) = sent.encrypted
               /\ Field(rec, "auth_required", FALSE) = sent.auth_required
               /\ Field(rec, "group_name", "") = sent.group_name
               /\ IF "obs_name" \in DOMAIN sent
                  THEN /\ Len(obs) = 1 /\ Field(obs[1], "name", "") = sent.obs_name
                       /\ AddBytes(Field(rec, "used_ssd", Bytes(0, 0)),
                                   Field(rec, "available_ssd", Bytes(0, 0))) = sent.ssd_capacity
                  ELSE obs = <<>>
          [] k = "filesystem_group" ->
               /\ DecodesAsObject(body)
               /\ Field(rec, "uid", "") = i
               /\ Field(rec, "name", "") = sent.name
               /\ Field(rec, "start_demote", 0) = sent.start_demote
               /\ Field(rec, "target_ssd_retention", 0) = sent.target_ssd_retention
          [] k = "s3_bucket" ->
               /\ DecodesAsObject(body)
               /\ \E n \in DOMAIN buckets : Field(buckets[n], "name", "") = sent.bucket_name
          [] k = "s3_policy" ->
               /\ DecodesAsObject(body)
               /\ Field(policy, "name", "") = sent.policy_name
               /\ Field(policy, "content", "null") = sent.policy_file_content
          [] k = "user_s3_policy" ->
               /\ DecodesAsObject(body)
               /\ sent.user_name \in DOMAIN bindings
               /\ bindings[sent.user_name] = sent.policy_name

\* The fields of kind k that its Read response reports back, and the value a
\* field holds as far as a Read can tell: a policy document is compared as a
\* document, not as text.
ReportedBack(k, plan) ==
    CASE k = "user" -> {"role"}
      [] k = "kms" -> {"base_url", "master_key_name"}
      [] k = "filesystem" ->
           {"total_capacity_gb", "encrypted", "auth_required", "group_name", "tiered"}
           \cup (IF plan.tiered THEN {"obs_name", "ssd_capacity_gb"} ELSE {})
      [] k = "filesystem_group" -> {"name", "start_demote", "target_ssd_retention"}
      [] k = "s3_bucket" -> {}
      [] k = "s3_policy" -> {"policy_name", "policy_file_content"}
      [] k = "user_s3_policy" -> {"username", "s3_policy_name"}
Denotes(f, v) == IF f = "policy_file_content" THEN UnmarshalPolicy(v) ELSE v

\* C11: a Read that comes right after a successful Create, answered by a
\* remote that stored what the Create sent, succeeds, leaves the instance
\* Present, and every field the Read response reports back has its declared
\* value.
C11_CreateThenRead ==
    (op.name = "Read" /\ op.after.ok /\ Len(calls) = 1 /\ ~Failed(calls[1])
        /\ RemoteStores(kind, op.after.body, op.prevId, calls[1].ret.body)) =>
        /\ op.err = NilErr
        /\ id # ""
        /\ \A f \in ReportedBack(kind, op.after.plan) :
               Denotes(f, attrs[f]) = Denotes(f, op.after.plan[f])

\* The byte count a filesystem record reports as its total capacity.
TotalBytes(rec) ==
    AddBytes(Field(rec, "available_total", Bytes(0, 0)), Field(rec, "used_total", Bytes(0, 0)))

\* C12: filesystem Create sends total_capacity = total_capacity_gb * 1000000000
\* bytes; an operation that decodes a remote record whose total capacity is N
\* bytes sets total_capacity_gb = N / 1000000000; and a Read of what Create
\* sent gives back the declared total_capacity_gb.
C12_CapacityConversion ==
    kind = "filesystem" =>
        /\ (op.name = "Create" /\ Len(calls) = 1) =>
               calls[1].body.total_capacity = Bytes(op.plan.total_capacity_gb, 0)
        /\ (op.name \in {"Read", "Update"} /\ Len(calls) = 1 /\ op.err = NilErr /\ id # ""
               /\ DecodesAsObject(calls[1].ret.body)
               /\ Len(Field(Rec(calls[1].ret.body), "obs_buckets", <<>>)) <= 1) =>
               attrs.total_capacity_gb = TotalBytes(Rec(calls[1].ret.body)).hi
        /\ (op.name = "Read" /\ op.after.ok /\ op.err = NilErr
               /\ TotalBytes(Rec(calls[1].ret.body)) = op.after.body.total_capacity) =>
               attrs.total_capacity_gb = op.after.plan.total_capacity_gb
        /\ \A g \in CapacitiesGb : DivGb(MulGb(g)) = g

\* A filesystem declared with 4 GB was created with total_capacity =
\* 4000000000, and the Read of a record of 4000000000 bytes gave 4 back.
C12_Witness ==
    /\ kind = "filesystem" /\ op.name = "Read" /\ op.after.ok /\ op.err = NilErr
    /\ op.after.plan.total_capacity_gb = 4
    /\ op.after.body.total_capacity = [hi |-> 4, lo |-> 0]
    /\ TotalBytes(Rec(calls[1].ret.body)) = [hi |-> 4, lo |-> 0]
    /\ attrs.total_capacity_gb = 4

\* The configuration has all four inputs / the response the login call got.
Complete(config) ==
    config.username # "" /\ config.password # "" /\ config.org # "" /\ config.endpoint # ""
LoginToken == Field(Rec(session.calls[1].res.body), "access_token", "")

\* C13: providerConfigure with username, password, org or endpoint empty fails
\* with a configuration error, yields no client, and has issued no remote call.
C13_MissingConfiguration ==
    (session.state # "none" /\ ~Complete(session.config)) =>
        /\ session.state = "failed"
        /\ session.err = ConfigurationError
        /\ session.client = NoClient
        /\ session.calls = <<>>

\* Configuration with only org missing failed without a login call.
C13_Witness ==
    /\ session.state = "failed"
    /\ session.config = [username |-> "admin", password |-> "secret", org |-> "",
                         endpoint |-> "https://weka"]
    /\ session.err = ConfigurationError
    /\ session.calls = <<>>

\* C14: with a complete configuration, providerConfigure posts one login and
\* yields a client exactly when the response has status 200 and a token type
\* equal to "bearer" ignoring case; a response with another status, or with
\* another token type (an empty one included), fails with AuthenticationError
\* and yields no client.
C14_SessionIffBearer ==
    (session.state # "none" /\ Complete(session.config)
        /\ ParsesAsURI(session.config.endpoint)) =>
        LET res == session.calls[1].res
            tokenType == Field(Rec(res.body), "token_type", "")
        IN  /\ Len(session.calls) = 1
            /\ session.calls[1].method = "POST" /\ session.calls[1].path = "/login"
            /\ (session.state = "ok") <=>
                   (res.delivered /\ res.status = 200 /\ DecodesAsObject(res.body)
                      /\ ToLower(tokenType) = "bearer")
            /\ (session.state = "ok") <=> (session.client # NoClient)
            /\ (res.delivered /\ (res.status # 200
                   \/ (DecodesAsObject(res.body) /\ ToLower(tokenType) # "bearer"))) =>
                   (session.state = "failed" /\ session.err.type = "Authentication")

\* A login answered 200 with token type "Bearer" gave a client holding the
\* token of the response.
C14_Witness ==
    /\ session.state = "ok"
    /\ session.calls[1].res.status = 200
    /\ Field(Rec(session.calls[1].res.body), "token_type", "") = "Bearer"
    /\ session.client.authResponse.access_token = "tokB"

\* C15: once the provider is configured its client is never modified; every
\* request of every operation carries the Authorization header "Bearer "
\* followed by the token the login returned, and none is a login call.
C15_TokenNeverModified ==
    /\ [](session.state = "ok" =>
             /\ session.client.authResponse.access_token = LoginToken
             /\ \A i \in DOMAIN calls :
                    /\ calls[i].authorization = "Bearer " \o LoginToken
                    /\ calls[i].path # "/login")
    /\ [][session.state = "ok" => session' = session]_vars

\* Under a session whose login returned tokB, a Read issued its GET with
\* "Bearer tokB".
C15_Witness ==
    /\ session.state = "ok" /\ LoginToken = "tokB"
    /\ op.name = "Read" /\ Len(calls) = 1
    /\ calls[1].method = "GET"
    /\ calls[1].authorization = "Bearer tokB"

\* C16: within one operation no sub-call is issued twice, and once a sub-call
\* has failed no later request of the operation goes to its endpoint.
C16_NoRetry ==
    \A i, j \in DOMAIN calls :
        i < j =>
            /\ ~(calls[i].method = calls[j].method /\ calls[i].path = calls[j].path)
            /\ Failed(calls[i]) => calls[j].path # calls[i].path

\* A user Update of password and role whose password call failed issued that
\* call once and nothing else.
C16_Witness ==
    /\ op.name = "Update" /\ kind = "user"
    /\ Changed("password") /\ Changed("role")
    /\ Len(calls) = 1 /\ Failed(calls[1])
    /\ calls[1].path = "/users/password"
    /\ op.err = calls[1].ret.err

\* C17: an operation one of whose remote calls failed reports failure to the
\* host, the read-back GET /kms of KMS Create and Update included.
C17_EveryFailureSurfaced ==
    (\E i \in DOMAIN calls : Failed(calls[i])) => op.err # NilErr

\* The operation decoded a filesystem record that lists more than one OBS
\* bucket.
DecodedManyBuckets ==
    \E i \in DOMAIN calls :
        /\ ~Failed(calls[i])
        /\ DecodesAsObject(calls[i].ret.body)
        /\ Len(Field(Rec(calls[i].ret.body), "obs_buckets", <<>>)) > 1

\* C18: a filesystem Read or Update that decoded a record listing more than
\* one OBS bucket reports UnsupportedConfiguration; it never succeeds with
\* only part of the bucket list kept.
C18_ManyBucketsReported ==
    (kind = "filesystem" /\ op.name \in {"Read", "Update"} /\ DecodedManyBuckets)
        => op.err = UnsupportedConfiguration

\* The field that carries the name of a bucket or of an access policy.
NameField == IF kind = "s3_bucket" THEN "bucket_name" ELSE "policy_name"

\* C19: for buckets and access policies, a successful Create, Read or Update
\* that leaves the instance Present leaves its identifier equal to its name
\* field, so every Present state reached through successful operations has
\* identifier = name.
C19_IdIsName ==
    (/\ kind \in {"s3_bucket", "s3_policy"}
     /\ op.name \in {"Create", "Read", "Update"}
     /\ op.err = NilErr
     /\ id # "")
        => id = attrs[NameField]

\* A successful Update that renamed an access policy: identifier and
\* policy_name are both the new name.
C19_Witness ==
    /\ kind = "s3_policy" /\ op.name = "Update" /\ op.err = NilErr
    /\ op.prevId # "" /\ op.prevId = op.prevAttrs.policy_name
    /\ Changed("policy_name")
    /\ id = op.plan.policy_name /\ attrs.policy_name = id

\* C20: an Update that renames an access policy is either rejected before any
\* remote call, or it deletes the policy of the old name and then creates the
\* policy of the new name; it is never one in-place call that leaves the old
\* policy on the remote.
C20_RenameIsReplace ==
    (/\ kind = "s3_policy" /\ op.name = "Update"
     /\ op.prevId # "" /\ Changed("policy_name"))
        => \/ op.err # NilErr /\ calls = <<>>
           \/ \E i, j \in DOMAIN calls :
                /\ i < j
                /\ calls[i].method = "DELETE"
                /\ calls[i].path = "/s3/policies/" \o op.prevAttrs.policy_name
                /\ calls[j].method = "POST"
                /\ calls[j].path = "/s3/policies"
                /\ calls[j].body.policy_name = op.plan.policy_name

\* C21: a failed operation leaves the last known-good state: a failed Create
\* leaves the instance Absent, a failed Read or Delete leaves identifier and
\* fields as they were, and a failed Update leaves the previous identifier
\* and changes a declared field only to its planned value, and only when a
\* call of the Update succeeded.
C21_FailedCreate ==
    (op.name = "Create" /\ op.err # NilErr) => id = ""
C21_FailedReadDelete ==
    (op.name \in {"Read", "Delete"} /\ op.err # NilErr)
        => (id = op.prevId /\ attrs = op.prevAttrs)
C21_FailedUpdate ==
    (op.name = "Update" /\ op.err # NilErr) =>
        /\ id = op.prevId /\ id # ""
        /\ \A f \in DOMAIN attrs \ Computed(kind) :
               attrs[f] # op.prevAttrs[f] =>
                   /\ attrs[f] = op.plan[f]
                   /\ \E i \in DOMAIN calls : ~Failed(calls[i])
C21_FailedOpKeepsKnownGood ==
    C21_FailedCreate /\ C21_FailedReadDelete /\ C21_FailedUpdate

\* C22: no request body of a Create or an Update names a Computed field
\* (last_updated; kms_type on KMS).
C22_ComputedNeverSent ==
    op.name \in {"Create", "Update"} =>
        \A i \in DOMAIN calls :
            calls[i].hasBody => DOMAIN calls[i].body \cap Computed(kind) = {}

\* A KMS Update of an instance whose kms_type was read back: the POST body
\* has base_url, master_key_name and token, and neither Computed field.
C22_Witness ==
    /\ kind = "kms" /\ op.name = "Update"
    /\ op.prevAttrs.kms_type # ""
    /\ Len(calls) >= 1 /\ calls[1].hasBody
    /\ DOMAIN calls[1].body = {"base_url", "master_key_name", "token"}

\* C23: each of the seven entity kinds is registered with the host, so the
\* instance the handlers run on is always of a kind the host can reach.
C23_EveryKindRegistered ==
    /\ \A k \in Kinds : k \in ResourcesMap
    /\ kind \in ResourcesMap

\* C24: role is accepted exactly when it is one of ClusterAdmin, OrgAdmin,
\* ReadOnly, Regular, S3, and anonymous_policy_name exactly when it is one of
\* none, download, upload, public; validation issues no call, and no Create or
\* Update runs, so no call is issued, with a value outside the set.
C24_EnumValidated ==
    LET enum == IF kind = "user"
                THEN {"ClusterAdmin", "OrgAdmin", "ReadOnly", "Regular", "S3"}
                ELSE {"none", "download", "upload", "public"}
        key == IF kind = "user" THEN "role" ELSE "anonymous_policy_name"
    IN  kind \in {"user", "s3_bucket"} =>
            /\ op.name = "Validate" =>
                   /\ calls = <<>>
                   /\ op.err = NilErr <=> op.plan[key] \in enum
                   /\ op.err # NilErr => op.err = ValidationError(key)
                   /\ id = op.prevId /\ attrs = op.prevAttrs
            /\ op.name \in {"Create", "Update"} => op.plan[key] \in enum

\* A user role written in another letter case was rejected without a call.
C24_Witness ==
    /\ kind = "user" /\ op.name = "Validate"
    /\ op.plan.role = "regular"
    /\ op.err = ValidationError("role")
    /\ calls = <<>>

\* C25: a binding Update with a changed username issues the detach first and
\* the attach only after the detach succeeded; a failed detach ends the
\* Update with an error, no attach and the old identifier; a new non-empty
\* identifier is set only when the detach succeeded.
C25_AttachAfterDetach ==
    (kind = "user_s3_policy" /\ op.name = "Update" /\ Changed("username")) =>
        /\ Len(calls) >= 1
        /\ calls[1].path = "/s3/policies/detach"
        /\ \A i \in DOMAIN calls :
               calls[i].path = "/s3/policies/attach" => (i = 2 /\ ~Failed(calls[1]))
        /\ Failed(calls[1]) =>
               /\ Len(calls) = 1
               /\ op.err = calls[1].ret.err
               /\ id = op.prevId
        /\ (id # "" /\ id # op.prevId) => ~Failed(calls[1])

\* The detach of a binding whose username changed failed: one call, the old
\* identifier kept.
C25_Witness ==
    /\ kind = "user_s3_policy" /\ op.name = "Update" /\ Changed("username")
    /\ Len(calls) = 1 /\ Failed(calls[1])
    /\ calls[1].path = "/s3/policies/detach"
    /\ id = op.prevId /\ id # ""

\* C26: when the username of a binding changes from A to B, the detach call
\* of the Update names A and the attach call names B.
C26_DetachNamesPreviousUser ==
    (kind = "user_s3_policy" /\ op.name = "Update" /\ Changed("username")) =>
        \A i \in DOMAIN calls :
            /\ calls[i].path = "/s3/policies/detach"
                   => calls[i].body.user_name = op.prevAttrs.username
            /\ calls[i].path = "/s3/policies/attach"
                   => calls[i].body.user_name = op.plan.username

\* C27: a successful Update, and a successful Read that leaves the instance
\* Present, leave the identifier non-empty and equal to the one before the
\* call, for every kind.
C27_IdentifierStable ==
    (/\ op.err = NilErr /\ op.prevId # ""
     /\ \/ op.name = "Update"
        \/ op.name = "Read" /\ id # "")
        => (id # "" /\ id = op.prevId)

\* C28: a list-scan Read (user, bucket, binding) whose listing contains a
\* record matching the instance (a user with the instance's uid, a bucket
\* with its name, the declared username mapped to the declared policy)
\* succeeds and leaves the identifier unchanged.
C28_ListScanFound ==
    (op.name = "Read" /\ op.prevId # "" /\ Len(calls) = 1 /\ ~Failed(calls[1])) =>
        LET body == calls[1].ret.body
            users == Items(body)
            buckets == Field(Rec(body), "buckets", <<>>)
            bindings == Field(Rec(body), "users", <<>>)
        IN  /\ (kind = "user" /\ DecodesAsList(body)
                  /\ \E i \in DOMAIN users : Field(users[i], "uid", "") = op.prevId) =>
                   (op.err = NilErr /\ id = op.prevId)
            /\ (kind = "s3_bucket" /\ DecodesAsObject(body)
                  /\ \E i \in DOMAIN buckets : Field(buckets[i], "name", "") = op.prevId) =>
                   (op.err = NilErr /\ id = op.prevId)
            /\ (kind = "user_s3_policy" /\ DecodesAsObject(body)
                  /\ op.prevAttrs.username \in DOMAIN bindings
                  /\ bindings[op.prevAttrs.username] = op.prevAttrs.s3_policy_name) =>
                   (op.err = NilErr /\ id = op.prevId)

\* C29: a binding Read that finds the declared user bound to another policy
\* sets s3_policy_name to the remote policy and keeps the identifier; the
\* identifier is cleared only when the listing has no entry for the user.
C29_DriftReported ==
    (/\ kind = "user_s3_policy" /\ op.name = "Read" /\ op.prevId # ""
     /\ Len(calls) = 1 /\ ~Failed(calls[1]) /\ DecodesAsObject(calls[1].ret.body)) =>
        LET bindings == Field(Rec(calls[1].ret.body), "users", <<>>)
            user == op.prevAttrs.username
        IN  /\ (user \in DOMAIN bindings
                  /\ bindings[user] # op.prevAttrs.s3_policy_name) =>
                   /\ op.err = NilErr
                   /\ id = op.prevId
                   /\ attrs.s3_policy_name = bindings[user]
            /\ (op.err = NilErr /\ id = "") => user \notin DOMAIN bindings

\* C30: the PUT /users/{id} of a user Update carries a body with exactly the
\* changed fields among role, posix_uid and posix_gid, at their new declared
\* values.
C30_UserUpdateBody ==
    (kind = "user" /\ op.name = "Update") =>
        \A i \in DOMAIN calls :
            calls[i].path = "/users/" \o op.prevId =>
                /\ calls[i].method = "PUT"
                /\ calls[i].hasBody
                /\ DOMAIN calls[i].body
                       = {f \in {"role", "posix_uid", "posix_gid"} : Changed(f)}
                /\ \A f \in DOMAIN calls[i].body : calls[i].body[f] = op.plan[f]

\* C31: a user Update issues PUT /users/password first and PUT /users/{id}
\* second, each once, when the password and one of role, posix_uid, posix_gid
\* changed (the second only when the first succeeded); when one group alone
\* changed it issues that group's call and no other.
C31_UserUpdateOrder ==
    (kind = "user" /\ op.name = "Update" /\ ~Changed("username")) =>
        LET pw == Changed("password")
            fields == Changed("role") \/ Changed("posix_uid") \/ Changed("posix_gid")
            byId == "/users/" \o op.prevId
        IN  /\ (pw /\ fields) =>
                   /\ Len(calls) \in {1, 2}
                   /\ calls[1].method = "PUT" /\ calls[1].path = "/users/password"
                   /\ Len(calls) = 1 <=> Failed(calls[1])
                   /\ Len(calls) = 2 =>
                          (calls[2].method = "PUT" /\ calls[2].path = byId)
            /\ (pw /\ ~fields) =>
                   /\ Len(calls) = 1
                   /\ calls[1].method = "PUT" /\ calls[1].path = "/users/password"
            /\ (~pw /\ fields) =>
                   /\ Len(calls) = 1
                   /\ calls[1].method = "PUT" /\ calls[1].path = byId

\* Password and role changed: the password call, then the call on the user,
\* both answered.
C31_Witness ==
    /\ kind = "user" /\ op.name = "Update"
    /\ Changed("password") /\ Changed("role")
    /\ Len(calls) = 2
    /\ calls[1].path = "/users/password" /\ calls[2].path = "/users/" \o op.prevId
    /\ ~Failed(calls[1]) /\ ~Failed(calls[2])
    /\ op.err = NilErr

\* C32: the PUT of a filesystem Update carries ssd_capacity = the new
\* ssd_capacity_gb * 1000000000 when a tiered filesystem's ssd_capacity_gb
\* changed, whatever total_capacity_gb is, and total_capacity =
\* total_capacity_gb * 1000000000 when total_capacity_gb changed.
C32_UpdateCapacities ==
    (kind = "filesystem" /\ op.name = "Update" /\ Len(calls) = 1) =>
        /\ (op.plan.tiered /\ Changed("ssd_capacity_gb")) =>
               /\ "ssd_capacity" \in DOMAIN calls[1].body
               /\ calls[1].body.ssd_capacity = Bytes(op.plan.ssd_capacity_gb, 0)
        /\ Changed("total_capacity_gb") =>
               /\ "total_capacity" \in DOMAIN calls[1].body
               /\ calls[1].body.total_capacity = Bytes(op.plan.total_capacity_gb, 0)

\* C33: every call of a filesystem group's Read, Update and Delete goes to
\* /fileSystemsGroups/{id}: Update's PUT addresses the resource that Read's
\* GET and Delete's DELETE address.
C33_GroupPath ==
    (kind = "filesystem_group" /\ op.name \in {"Read", "Update", "Delete"}) =>
        \A i \in DOMAIN calls :
            /\ calls[i].path = "/fileSystemsGroups/" \o op.prevId
            /\ calls[i].method = (CASE op.name = "Read" -> "GET"
                                    [] op.name = "Update" -> "PUT"
                                    [] op.name = "Delete" -> "DELETE")

\* C34: the body of a user Create has posix_uid exactly when posix_uid was
\* declared and posix_gid exactly when posix_gid was declared, each
\* independently of the other.
C34_PosixIdsSent ==
    (kind = "user" /\ op.name = "Create" /\ Len(calls) = 1) =>
        /\ "posix_uid" \in DOMAIN calls[1].body <=> op.plan.posix_uid # 0
        /\ "posix_gid" \in DOMAIN calls[1].body <=> op.plan.posix_gid # 0
        /\ \A f \in {"posix_uid", "posix_gid"} \cap DOMAIN calls[1].body :
               calls[1].body[f] = op.plan[f]

\* The fields of an instance that its Update can send.
Sendable ==
    CASE kind = "user" -> {"password", "role", "posix_uid", "posix_gid"}
      [] kind = "kms" -> {"base_url", "master_key_name", "token"}
      [] kind = "filesystem" ->
           {"name", "total_capacity_gb", "auth_required"}
           \cup (IF op.plan.tiered THEN {"ssd_capacity_gb"} ELSE {})
      [] kind = "filesystem_group" -> {"name", "target_ssd_retention", "start_demote"}
      [] kind = "s3_bucket" -> {"hard_quota", "anonymous_policy_name"}
      [] kind = "s3_policy" -> {"policy_name", "policy_file_content"}
      [] kind = "user_s3_policy" -> {"username", "s3_policy_name"}

\* C35: an Update issues a call to an endpoint only when a changed field
\* belongs to that endpoint's group, and no call at all when no changed field
\* is one the entity can send in an update.
C35_OnlyImplicatedCalls ==
    op.name = "Update" =>
        /\ (\A f \in Sendable : ~Changed(f)) => calls = <<>>
        /\ kind = "user" =>
               \A i \in DOMAIN calls :
                   /\ calls[i].path = "/users/password" => Changed("password")
                   /\ calls[i].path = "/users/" \o op.prevId =>
                          (Changed("role") \/ Changed("posix_uid") \/ Changed("posix_gid"))
        /\ kind = "s3_bucket" =>
               \A i \in DOMAIN calls :
                   /\ calls[i].path = "/s3/buckets/" \o op.prevId \o "/quota"
                          => Changed("hard_quota")
                   /\ calls[i].path = "/s3/buckets/" \o op.prevId \o "/policy"
                          => Changed("anonymous_policy_name")

\* C36: a successful Read that leaves the instance Present writes no field
\* the response does not report: a user Read changes only role, a bucket Read
\* changes no field, and the Read of a filesystem whose record lists no OBS
\* bucket leaves obs_name and ssd_capacity_gb as they were.
C36_ReadKeepsUnreported ==
    (op.name = "Read" /\ op.err = NilErr /\ op.prevId # "" /\ id # "") =>
        /\ kind = "user" =>
               \A f \in DOMAIN attrs \ {"role"} : attrs[f] = op.prevAttrs[f]
        /\ kind = "s3_bucket" => attrs = op.prevAttrs
        /\ (kind = "filesystem"
              /\ Field(Rec(calls[1].ret.body), "obs_buckets", <<>>) = <<>>) =>
               /\ attrs.obs_name = op.prevAttrs.obs_name
               /\ attrs.ssd_capacity_gb = op.prevAttrs.ssd_capacity_gb

\* A filesystem declared tiered was read back with no OBS bucket: tiered and
\* the capacity were rewritten, obs_name and ssd_capacity_gb kept.
C36_Witness ==
    /\ kind = "filesystem" /\ op.name = "Read" /\ op.err = NilErr /\ id # ""
    /\ Field(Rec(calls[1].ret.body), "obs_buckets", <<>>) = <<>>
    /\ op.prevAttrs.tiered /\ ~attrs.tiered
    /\ attrs.total_capacity_gb # op.prevAttrs.total_capacity_gb
    /\ attrs.obs_name = "obs1" /\ op.prevAttrs.obs_name = "obs1"
    /\ attrs.ssd_capacity_gb = 2 /\ op.prevAttrs.ssd_capacity_gb = 2

\* C37: a Create that reports success leaves the instance with a non-empty
\* identifier.
C37_CreateSuccessIsPresent ==
    (op.name = "Create" /\ op.err = NilErr) => id # ""

\* The requests instance i's running handler has issued so far, whether a
\* request changes the remote, and the remote object it addresses: the KMS
\* configuration at /kms, or the policy attachment of the user it names.
Issued(i) == SubSeq(peers[i].calls, 1, peers[i].sent)
Mutating(c) == c.method \in {"POST", "PUT", "DELETE"}
Target(c) ==
    IF c.path \in {"/s3/policies/attach", "/s3/policies/detach"}
    THEN "/s3/userPolicies/" \o c.body.user_name
    ELSE c.path

\* C38: while the handlers of two distinct instances run at the same time,
\* they have issued no two mutating calls that address the same remote
\* object.
C38_NoSharedTarget ==
    (peers[1].pc = "busy" /\ peers[2].pc = "busy") =>
        \A a \in DOMAIN Issued(1), b \in DOMAIN Issued(2) :
            (Mutating(Issued(1)[a]) /\ Mutating(Issued(2)[b]))
                => Target(Issued(1)[a]) # Target(Issued(2)[b])

====
